---------------------------- MODULE Spec2Model ----------------------------
(***************************************************************************)
(* dynsim: the Simulator run loop (internal/sim) in its two co-existing    *)
(* versions, the canonical one with adaptive stepping, state validation    *)
(* and an Errors list, and the legacy one.                                 *)
(*                                                                         *)
(* Numbers.  Times and step sizes are float64 in the source.  Here they    *)
(* are integers counting a fixed quantum, so that +, *2, /2 and the        *)
(* truncating division of int(duration/dt) are exact; the inputs are       *)
(* chosen so that every halving the code performs is exact (HalvingExact). *)
(* A state component is a float64 of one of the classes finite, NaN,       *)
(* +Inf, -Inf.                                                             *)
(***************************************************************************)
EXTENDS Integers, Sequences, FiniteSets, TLC

(* ------------------------------ bounds -------------------------------- *)
MaxSteps == 2
NumMetrics == 1
NumObservers == 1
NumRuns == 2
MaxCalls == 4
MaxObserves == 3
MaxDerives == 2

(* ------------------------- float64 components ------------------------- *)
Fin(v) == [cls |-> "fin", val |-> v]
NaN == [cls |-> "nan", val |-> 0]
PosInf == [cls |-> "inf", val |-> 1]
NegInf == [cls |-> "inf", val |-> -1]

Abs(n) == IF n < 0 THEN -n ELSE n

\* IsValid with the math.IsInf test left out
IsValid_NaNOnly(s) == \A k \in 1..Len(s) : s[k].cls # "nan"

\* math.IsNaN(v) || math.IsInf(v, 0) is false for every component
IsValid(s) == \A k \in 1..Len(s) : s[k].cls = "fin"

\* one component of State.Sub: IEEE subtraction on the classes
SubVal(a, b) ==
    IF a.cls = "nan" \/ b.cls = "nan" THEN NaN
    ELSE IF a.cls = "fin" /\ b.cls = "fin" THEN Fin(a.val - b.val)
    ELSE IF a.cls = "inf" /\ b.cls = "inf"
         THEN (IF a.val = b.val THEN NaN ELSE a)
    ELSE IF a.cls = "inf" THEN a
    ELSE (IF b.val = 1 THEN NegInf ELSE PosInf)

\* State.Sub: elementwise over s, a missing component of other counts as 0
Sub(s, other) ==
    [k \in 1..Len(s) |-> IF k <= Len(other) THEN SubVal(s[k], other[k]) ELSE s[k]]

\* State.Norm for the one-component states of the model: sqrt(v*v)
Norm(s) ==
    IF Len(s) = 0 THEN Fin(0)
    ELSE IF s[1].cls = "nan" THEN NaN
    ELSE IF s[1].cls = "inf" THEN PosInf
    ELSE Fin(Abs(s[1].val))

\* float comparisons err > b and 10*err < b (err < b/10); false on NaN
FGt(e, b) == \/ (e.cls = "fin" /\ e.val > b)
             \/ (e.cls = "inf" /\ e.val = 1)
FLtTenth(e, b) == \/ (e.cls = "fin" /\ 10 * e.val < b)
                  \/ (e.cls = "inf" /\ e.val = -1)

Min(a, b) == IF a < b THEN a ELSE b

(* ------------------------------ inputs -------------------------------- *)
Impls == {"canonical", "legacy"}
IntegratorKinds == {"plain", "rk45"}
StateVals == {<<Fin(0)>>, <<Fin(2)>>, <<NaN>>, <<PosInf>>}
ControlVals == {<<>>, <<Fin(1)>>}
DtVals == {-2, 0, 2, 4}
DurationVals == {-4, 0, 2, 4, 6}
ToleranceVals == {0, 1, 10}
MinDtVals == {1, 3}
MaxDtVals == {2, 8}

AllConfigs ==
    [Dt : DtVals, Duration : DurationVals, Tolerance : ToleranceVals,
     MinDt : MinDtVals, MaxDt : MaxDtVals,
     Adaptive : BOOLEAN, ValidateState : BOOLEAN]

\* Tolerance, MinDt and MaxDt are read in adaptive runs only: a config that
\* is not adaptive carries one value of each
Configs ==
    {c \in AllConfigs :
        ~c.Adaptive => (c.Tolerance = 0 /\ c.MinDt = 1 /\ c.MaxDt = 2)}

\* the legacy Config has only Dt, Duration and Seed
LegacyConfigs == {c \in Configs : ~c.Adaptive /\ ~c.ValidateState}

\* the initial states Run is called with
X0Vals == {<<Fin(0)>>, <<NaN>>}

Nil == [kind |-> "nil"]
ErrDt == [kind |-> "dt must be positive"]
ErrDuration == [kind |-> "duration must be positive"]
ErrTolerance == [kind |-> "tolerance must be positive for adaptive stepping"]
CtxErr == [kind |-> "context canceled"]
SimError(step, time) == [kind |-> "invalid state (NaN/Inf)", Step |-> step, Time |-> time]

Metrics == 1..NumMetrics
Observers == 1..NumObservers

VARIABLES
    impl,        \* which Simulator this is
    integrator,  \* s.integrator: "rk45" implements AdaptiveIntegrator
    metrics,     \* s.metrics: each metric's sum and samples
    cfg,         \* Run's cfg argument
    ctxDone,     \* ctx.Done() is closed
    pc,          \* position of Run
    x, t, dt, u, \* Run's locals
    i, steps,
    x0,          \* Run's x0 argument
    newX,
    res,         \* the Result being assembled
    ret,         \* what Run returned: [result, err], or Nil while running
    mi,          \* index of the range loop over metrics / observers
    adt,         \* adaptiveStep's dt parameter
    usedDt,      \* the step size the integrator computed newX with
    calls        \* the calls Run has made on its collaborators, in order

simVars == <<impl, integrator, metrics, cfg, ctxDone, pc, x, t, dt, u, i, steps,
             x0, newX, res, ret, mi, adt, usedDt, calls>>

\* an Ensemble over a base Simulator, running
VARIABLES
    eCall,       \* Ensemble.Run's arguments and e's fields: [cfg, x0, seedStart]
    ePc,         \* position of Ensemble.Run
    eSpawned,    \* the loop variable i of the spawning loop
    wg,          \* the WaitGroup's counter
    eCtxDone,    \* the ctx given to Ensemble.Run is cancelled
    trial,       \* per goroutine: its position, its sim and the locals of sim.Run
    results,     \* results[idx]
    errs,        \* errs[idx]
    eRet,        \* what Ensemble.Run returned, or Nil
    scratch,     \* the scratch buffer of the base Simulator's integrator
    baseMetric   \* the fields of the base Simulator's metric

ensembleVars == <<eCall, ePc, eSpawned, wg, eCtxDone, trial, results, errs, eRet,
                  scratch, baseMetric>>

\* a PID controller, called directly and by the runs of a Simulator
VARIABLES
    pid,         \* the PID's fields
    pidOut,      \* what the last Compute returned
    pidLast,     \* the last call on the PID: its name, its arguments, the fields before it
    pidCalls,    \* the number of Compute calls so far
    pidRun,      \* the Run in progress on the Simulator that holds the PID
    pidRuns      \* what the completed runs returned, in order

pidVars == <<pid, pidOut, pidLast, pidCalls, pidRun, pidRuns>>

\* one metric of package metrics, called directly
VARIABLES
    met,            \* the metric's fields
    metLast,        \* the last call on it: its name, its arguments, whether it follows a Reset
    metBeforeReset, \* the fields the last Reset found
    metObs          \* the number of Observe calls so far

metricVars == <<met, metLast, metBeforeReset, metObs>>

\* the trials of an Ensemble over an NBody system, inside NBody.Derive
VARIABLES
    gpuCfg,      \* nb.UseGPU && n >= 32, and the CUDABackend's available
    nbPositions, \* nb.positions, which the trials share: whose state it holds
    caller       \* per trial: its position in Derive, the posF it converted, what Derive returned

gpuVars == <<gpuCfg, nbPositions, caller>>

\* a Verlet and a Leapfrog integrator, called directly
VARIABLES
    sym,         \* the system, and the fields of the two integrators
    symLast      \* the last Step call: its receiver, its arguments, its outcome

symVars == <<sym, symLast>>

\* a Configurable system or controller, and a BifurcationDiagram over it
VARIABLES
    tun,         \* the Configurable: what it is and its parameters
    tunLast,     \* the last SetParam call from outside: its arguments, the
                 \* parameters before it, the error it returned
    bif          \* the activation of BifurcationDiagram

tunVars == <<tun, tunLast, bif>>

\* a Store over one base directory
VARIABLES
    fs,          \* the run directories under baseDir: what each one's files hold
    clock,       \* time.Now().Unix()
    saves,       \* the successful Save calls, in order: the ID returned, the metadata given
    listed,      \* what List returned, if it was called after the last Save
    loaded       \* what Load returned, if it was called after the last Save

storeVars == <<fs, clock, saves, listed, loaded>>

\* an LQR controller, called directly
VARIABLES
    lqr,         \* which LQR it is, and its fields K and Target
    lqrLast      \* the last Compute call: its x, and what it returned or its panic

lqrVars == <<lqr, lqrLast>>

\* Simulator.adaptiveStep on a non-adaptive integrator, called by itself
VARIABLES
    ast          \* the call: its position, cfg, the dt of the outermost and of
                 \* the current activation, the depth, the last activation's
                 \* x1, x2 and err, and what the call returned

astVars == <<ast>>

\* one call of a CPU parallel force kernel
VARIABLES
    ker,         \* the driver: which kernel, n, the worker count, its position,
                 \* the spawning loop's w, the WaitGroup's counter, ax
    kw,          \* per worker: its position, start, end and i
    localAx,     \* nbodyParallel's localAx[w]
    wlog         \* the writes so far: the array, its owner, the index, the writer

kernelVars == <<ker, kw, localAx, wlog>>

\* one call of ParallelFor
VARIABLES
    pf,          \* the caller's goroutine: n, minChunk, its position, workers,
                 \* chunkSize, the spawning loop's w, the WaitGroup's counter
    pfCalls      \* the invocations of fn so far: start, end, whether fn returned

parallelForVars == <<pf, pfCalls>>

\* a run under a ManualController or a None controller, and the caller of
\* SetControl
VARIABLES
    ctl,         \* the controller: what it is, and the SetControl in progress
    heap,        \* the Control slices' backing arrays: 0 is the ManualController's
                 \* U, k the array None.Compute made in step k
    mrun         \* Run: its position, i, steps, x, u (an array of heap), the
                 \* Controls recorded (arrays of heap), the values applied

manualVars == <<ctl, heap, mrun>>

\* the components that are called directly, outside any run
libraryVars == <<symVars, tunVars, storeVars, lqrVars, astVars, kernelVars,
                 parallelForVars, manualVars>>

vars == <<simVars, ensembleVars, pidVars, metricVars, gpuVars, libraryVars>>

\* what an action of the Simulator leaves alone
outsideSimulator == <<ensembleVars, pidVars, metricVars, gpuVars, libraryVars>>

\* what an action of the Ensemble leaves alone
outsideEnsemble == <<simVars, pidVars, metricVars, gpuVars, libraryVars>>

\* what an action on the PID leaves alone
outsidePID == <<simVars, ensembleVars, metricVars, gpuVars, libraryVars>>

\* what an action on the metric leaves alone
outsideMetric == <<simVars, ensembleVars, pidVars, gpuVars, libraryVars>>

\* the components that run through a Simulator or an Ensemble
runVars == <<simVars, ensembleVars, pidVars, metricVars, gpuVars>>

\* what an action of a trial inside Derive leaves alone
outsideGPU == <<simVars, ensembleVars, pidVars, metricVars, libraryVars>>

\* what a Step call on the Verlet or the Leapfrog leaves alone
outsideSym ==
    <<runVars, tunVars, storeVars, lqrVars, astVars, kernelVars, parallelForVars,
      manualVars>>

\* what a call on the Configurable leaves alone
outsideTun ==
    <<runVars, symVars, storeVars, lqrVars, astVars, kernelVars, parallelForVars,
      manualVars>>

\* what a call on the Store leaves alone
outsideStore ==
    <<runVars, symVars, tunVars, lqrVars, astVars, kernelVars, parallelForVars,
      manualVars>>

\* what a Compute call on the LQR leaves alone
outsideLQR ==
    <<runVars, symVars, tunVars, storeVars, astVars, kernelVars, parallelForVars,
      manualVars>>

\* what adaptiveStep, called by itself, leaves alone
outsideAdaptiveStep ==
    <<runVars, symVars, tunVars, storeVars, lqrVars, kernelVars, parallelForVars,
      manualVars>>

\* what a CPU force kernel leaves alone
outsideKernel ==
    <<runVars, symVars, tunVars, storeVars, lqrVars, astVars, parallelForVars,
      manualVars>>

\* what ParallelFor leaves alone
outsideParallelFor ==
    <<runVars, symVars, tunVars, storeVars, lqrVars, astVars, kernelVars,
      manualVars>>

\* what the run under the ManualController leaves alone
outsideManual ==
    <<runVars, symVars, tunVars, storeVars, lqrVars, astVars, kernelVars,
      parallelForVars>>

ZeroCfg == [Dt |-> 0, Duration |-> 0, Tolerance |-> 0, MinDt |-> 1, MaxDt |-> 2,
            Adaptive |-> FALSE, ValidateState |-> FALSE]

EmptyResult == [States |-> <<>>, Controls |-> <<>>, Times |-> <<>>,
                Metrics |-> <<>>, StepsTaken |-> 0, Errors |-> <<>>]

\* New(dyn, integrator, controller) followed by AddMetric / AddObserver
Init ==
    /\ impl \in Impls
    /\ integrator \in IntegratorKinds
    /\ (impl = "legacy" => integrator = "plain")
    /\ metrics = [m \in Metrics |-> [sum |-> 0, samples |-> 0]]
    /\ cfg = ZeroCfg
    /\ ctxDone = FALSE
    /\ pc = "idle"
    /\ x = <<>> /\ t = 0 /\ dt = 0 /\ u = <<>>
    /\ i = 0 /\ steps = 0
    /\ x0 = <<>> /\ newX = <<>>
    /\ res = EmptyResult
    /\ ret = Nil
    /\ mi = 1
    /\ adt = 0 /\ usedDt = 0
    /\ calls = <<>>

(* ----------------------------- Simulator ------------------------------ *)

\* validateConfig without the tolerance check
validateConfig_NoTolerance(c) ==
    IF c.Dt <= 0 THEN [kind |-> "dt must be positive"]
    ELSE IF c.Duration <= 0 THEN [kind |-> "duration must be positive"]
    ELSE [kind |-> "nil"]

\* validateConfig (canonical) and the two checks at the top of the legacy Run
validateConfig(c) ==
    IF c.Dt <= 0 THEN ErrDt
    ELSE IF c.Duration <= 0 THEN ErrDuration
    ELSE IF impl = "canonical" /\ c.Adaptive /\ c.Tolerance <= 0 THEN ErrTolerance
    ELSE Nil

\* the step count rounded up instead of truncated
StepCount_Ceil(c) == (c.Duration + c.Dt - 1) \div c.Dt

\* steps := int(cfg.Duration / cfg.Dt), both positive
StepCount(c) == c.Duration \div c.Dt

Call(op, idx) == [op |-> op, idx |-> idx]

\* Run(ctx, x0, cfg): validation, then the allocation of the result
Run(c, xinit) ==
    /\ validateConfig(c) = Nil => StepCount(c) <= MaxSteps
    /\ cfg' = c /\ x0' = xinit /\ ctxDone' = FALSE
    /\ IF validateConfig(c) # Nil
       THEN /\ ret' = [result |-> Nil, err |-> validateConfig(c)]
            /\ steps' = 0
            /\ pc' = "returned"
       ELSE /\ ret' = Nil
            /\ steps' = StepCount(c)
            /\ pc' = "reset"
    /\ UNCHANGED <<impl, integrator, metrics, x, t, dt, u, i, newX, res, mi,
                   adt, usedDt, calls>>
    /\ UNCHANGED outsideSimulator

\* a caller calls Run on the idle Simulator
RunCall ==
    /\ pc = "idle"
    /\ \E c \in (IF impl = "legacy" THEN LegacyConfigs ELSE Configs), xinit \in X0Vals :
         Run(c, xinit)

\* the Reset loop with a Reset that leaves the metric as it is
ResetMetric_KeepsSums ==
    /\ pc = "reset" /\ mi <= NumMetrics
    /\ calls' = Append(calls, Call("Reset", mi))
    /\ mi' = mi + 1
    /\ UNCHANGED <<impl, integrator, metrics, cfg, ctxDone, pc, x, t, dt, u, i, steps,
                   x0, newX, res, ret, adt, usedDt>>
    /\ UNCHANGED outsideSimulator

\* for _, m := range s.metrics { m.Reset() }: one iteration
ResetMetric ==
    /\ pc = "reset" /\ mi <= NumMetrics
    /\ metrics' = [metrics EXCEPT ![mi] = [sum |-> 0, samples |-> 0]]
    /\ calls' = Append(calls, Call("Reset", mi))
    /\ mi' = mi + 1
    /\ UNCHANGED <<impl, integrator, cfg, ctxDone, pc, x, t, dt, u, i, steps,
                   x0, newX, res, ret, adt, usedDt>>
    /\ UNCHANGED outsideSimulator

\* x := x0.Clone(); t := 0; dt := cfg.Dt; the first state and time are pushed
Start ==
    /\ pc = "reset" /\ mi > NumMetrics
    /\ x' = x0 /\ t' = 0 /\ dt' = cfg.Dt /\ i' = 0
    /\ res' = [res EXCEPT !.States = <<x0>>, !.Times = <<0>>]
    /\ pc' = "loop"
    /\ UNCHANGED <<impl, integrator, metrics, cfg, ctxDone, u, steps, x0, newX,
                   ret, mi, adt, usedDt, calls>>
    /\ UNCHANGED outsideSimulator

\* what the cancellation branch of the select returns
CancelReturn ==
    IF impl = "canonical" THEN [result |-> res, err |-> CtxErr]
    ELSE [result |-> Nil, err |-> CtxErr]

\* for i := 0; i < steps; i++ { select { case <-ctx.Done(): return ...
LoopTop ==
    /\ pc = "loop"
    /\ IF i < steps
       THEN IF ctxDone
            THEN ret' = CancelReturn /\ pc' = "returned"
            ELSE ret' = ret /\ pc' = "compute"
       ELSE ret' = ret /\ pc' = "harvest"
    /\ UNCHANGED <<impl, integrator, metrics, cfg, ctxDone, x, t, dt, u, i, steps,
                   x0, newX, res, mi, adt, usedDt, calls>>
    /\ UNCHANGED outsideSimulator

\* u := s.controller.Compute(x, t)
ControllerCompute ==
    /\ pc = "compute"
    /\ \E c \in ControlVals : u' = c
    /\ calls' = Append(calls, Call("Compute", 0))
    /\ mi' = 1
    /\ pc' = "observe"
    /\ UNCHANGED <<impl, integrator, metrics, cfg, ctxDone, x, t, dt, i, steps,
                   x0, newX, res, ret, adt, usedDt>>
    /\ UNCHANGED outsideSimulator

\* sum of math.Abs(val) over the components of u
AbsSum(c) == IF Len(c) = 0 THEN 0 ELSE Abs(c[1].val)

\* ControlEffort.Observe
ObserveMetric(m, c) == [sum |-> m.sum + AbsSum(c), samples |-> m.samples + 1]

\* ControlEffort.Value, as the fraction <<numerator, denominator>>
Value(m) == IF m.samples = 0 THEN <<0, 1>> ELSE <<m.sum, m.samples>>

\* the metric loop followed by the integrator step, the observers left out
Observe_SkipObservers ==
    /\ pc = "observe" /\ mi <= NumMetrics
    /\ metrics' = [metrics EXCEPT ![mi] = ObserveMetric(metrics[mi], u)]
    /\ calls' = Append(calls, Call("Observe", mi))
    /\ IF mi = NumMetrics THEN mi' = 1 /\ pc' = "integrate"
                          ELSE mi' = mi + 1 /\ pc' = pc
    /\ UNCHANGED <<impl, integrator, cfg, ctxDone, x, t, dt, u, i, steps,
                   x0, newX, res, ret, adt, usedDt>>
    /\ UNCHANGED outsideSimulator

\* for _, m := range s.metrics { m.Observe(x, u, t) }: one iteration
Observe ==
    /\ pc = "observe" /\ mi <= NumMetrics
    /\ metrics' = [metrics EXCEPT ![mi] = ObserveMetric(metrics[mi], u)]
    /\ calls' = Append(calls, Call("Observe", mi))
    /\ IF mi = NumMetrics THEN mi' = 1 /\ pc' = "onstep"
                          ELSE mi' = mi + 1 /\ pc' = pc
    /\ UNCHANGED <<impl, integrator, cfg, ctxDone, x, t, dt, u, i, steps,
                   x0, newX, res, ret, adt, usedDt>>
    /\ UNCHANGED outsideSimulator

\* for _, obs := range s.observers { obs.OnStep(x, u, t) }: one iteration
OnStep ==
    /\ pc = "onstep" /\ mi <= NumObservers
    /\ calls' = Append(calls, Call("OnStep", mi))
    /\ IF mi = NumObservers THEN mi' = 1 /\ pc' = "integrate"
                            ELSE mi' = mi + 1 /\ pc' = pc
    /\ UNCHANGED <<impl, integrator, metrics, cfg, ctxDone, x, t, dt, u, i, steps,
                   x0, newX, res, ret, adt, usedDt>>
    /\ UNCHANGED outsideSimulator

\* the scale RK45.StepAdaptive multiplies dt by: in [minScale, safety) when the
\* step is rejected (errRatio > 1), in [safety, maxScale] otherwise; a scale is
\* <<numerator, denominator>> and is offered where dt * scale is a whole number
RK45Scales(d) ==
    {sc \in {<<1, 5>>, <<1, 2>>, <<1, 1>>, <<10, 1>>} : (d * sc[1]) % sc[2] = 0}

\* newX = s.integrator.Step(s.dyn, x, u, t, dt): any state the integrator and
\* the dynamics may produce (legacy: x = s.integrator.Step(..., cfg.Dt))
PlainStep ==
    /\ pc = "integrate"
    /\ impl = "legacy" \/ ~cfg.Adaptive
    /\ \E nx \in StateVals : newX' = nx
    /\ usedDt' = (IF impl = "legacy" THEN cfg.Dt ELSE dt)
    /\ calls' = Append(calls, Call("Step", 0))
    /\ pc' = "post"
    /\ UNCHANGED <<impl, integrator, metrics, cfg, ctxDone, x, t, dt, u, i, steps,
                   x0, res, ret, mi, adt>>
    /\ UNCHANGED outsideSimulator

\* newX, dt, stepErr = s.adaptiveStep(x, u, t, dt, cfg) with an integrator
\* that implements AdaptiveIntegrator: RK45.StepAdaptive returns xNew, dtNew, nil
AdaptiveStepRK45 ==
    /\ pc = "integrate"
    /\ impl = "canonical" /\ cfg.Adaptive /\ integrator = "rk45"
    /\ \E nx \in StateVals : newX' = nx
    /\ \E sc \in RK45Scales(dt) : dt' = (dt * sc[1]) \div sc[2]
    /\ usedDt' = dt
    /\ calls' = Append(calls, Call("Step", 0))
    /\ pc' = "post"
    /\ UNCHANGED <<impl, integrator, metrics, cfg, ctxDone, x, t, u, i, steps,
                   x0, res, ret, mi, adt>>
    /\ UNCHANGED outsideSimulator

\* the call of adaptiveStep(x, u, t, dt, cfg) on a non-adaptive integrator
AdaptiveStepCall ==
    /\ pc = "integrate"
    /\ impl = "canonical" /\ cfg.Adaptive /\ integrator = "plain"
    /\ adt' = dt
    /\ pc' = "adaptiveStep"
    /\ UNCHANGED <<impl, integrator, metrics, cfg, ctxDone, x, t, dt, u, i, steps,
                   x0, newX, res, ret, mi, usedDt, calls>>
    /\ UNCHANGED outsideSimulator

\* the step size adaptiveStep returns with an accepted step
ProposedDt(err, d, c) ==
    IF FLtTenth(err, c.Tolerance) /\ d < c.MaxDt THEN Min(d * 2, c.MaxDt) ELSE d

\* the retry test without the floor on dt
MustRetry_NoFloor(err, d, c) == FGt(err, c.Tolerance)

\* adaptiveStep retries with dt/2
MustRetry(err, d, c) == FGt(err, c.Tolerance) /\ d > c.MinDt

\* one activation of the step-doubling adaptiveStep: x1 from one step of adt,
\* x2 from two steps of adt/2, then either the recursive call with adt/2 or
\* the return of x2 and the proposed dt, which Run assigns to its dt
AdaptiveStepFallback ==
    /\ pc = "adaptiveStep"
    /\ \E x1 \in StateVals, x2 \in StateVals :
         LET err == Norm(Sub(x1, x2)) IN
           IF MustRetry(err, adt, cfg)
           THEN /\ adt' = adt \div 2
                /\ UNCHANGED <<newX, dt, usedDt, pc>>
           ELSE /\ newX' = x2
                /\ dt' = ProposedDt(err, adt, cfg)
                /\ usedDt' = adt
                /\ pc' = "post"
                /\ adt' = adt
    /\ calls' = Append(calls, Call("Step", 0))
    /\ UNCHANGED <<impl, integrator, metrics, cfg, ctxDone, x, t, u, i, steps,
                   x0, res, ret, mi>>
    /\ UNCHANGED outsideSimulator

\* the step size t advances by: the legacy Run adds cfg.Dt, the canonical Run
\* adds dt, which in an adaptive run already holds what adaptiveStep returned
TimeIncrement == IF impl = "legacy" THEN cfg.Dt ELSE dt

\* the loop body with the control pushed before the validity check
Post_ControlBeforeCheck ==
    /\ pc = "post"
    /\ IF impl = "canonical" /\ cfg.ValidateState /\ ~IsValid(newX)
       THEN /\ res' = [res EXCEPT !.Errors = Append(@, SimError(i, t)),
                                  !.Controls = Append(@, u)]
            /\ pc' = "harvest"
            /\ UNCHANGED <<x, t, i>>
       ELSE /\ x' = newX
            /\ t' = t + TimeIncrement
            /\ res' = [res EXCEPT !.StepsTaken = @ + 1,
                                  !.States = Append(@, newX),
                                  !.Controls = Append(@, u),
                                  !.Times = Append(@, t + TimeIncrement)]
            /\ i' = i + 1
            /\ pc' = "loop"
    /\ UNCHANGED <<impl, integrator, metrics, cfg, ctxDone, dt, u, steps,
                   x0, newX, ret, mi, adt, usedDt, calls>>
    /\ UNCHANGED outsideSimulator

\* the rest of the loop body after the integrator returned; both adaptiveStep
\* paths return a nil error, so nothing is appended for stepErr
Post ==
    /\ pc = "post"
    /\ IF impl = "canonical" /\ cfg.ValidateState /\ ~IsValid(newX)
       THEN /\ res' = [res EXCEPT !.Errors = Append(@, SimError(i, t))]
            /\ pc' = "harvest"
            /\ UNCHANGED <<x, t, i>>
       ELSE /\ x' = newX
            /\ t' = t + TimeIncrement
            /\ res' = [res EXCEPT !.StepsTaken = @ + 1,
                                  !.States = Append(@, newX),
                                  !.Controls = Append(@, u),
                                  !.Times = Append(@, t + TimeIncrement)]
            /\ i' = i + 1
            /\ pc' = "loop"
    /\ UNCHANGED <<impl, integrator, metrics, cfg, ctxDone, dt, u, steps,
                   x0, newX, ret, mi, adt, usedDt, calls>>
    /\ UNCHANGED outsideSimulator

\* the Result the normal return hands out
FinalResult(r) ==
    IF impl = "canonical" THEN r
    ELSE [States |-> r.States, Controls |-> r.Controls, Times |-> r.Times,
          Metrics |-> r.Metrics]

\* result.Metrics[m.Name()] = m.Value() for every metric; return result, nil
Harvest ==
    /\ pc = "harvest"
    /\ res' = [res EXCEPT !.Metrics = [m \in Metrics |-> Value(metrics[m])]]
    /\ ret' = [result |-> FinalResult(res'), err |-> Nil]
    /\ pc' = "returned"
    /\ UNCHANGED <<impl, integrator, metrics, cfg, ctxDone, x, t, dt, u, i, steps,
                   x0, newX, mi, adt, usedDt, calls>>
    /\ UNCHANGED outsideSimulator

\* the caller cancels the context, at any moment from the call of Run on
Cancel ==
    /\ pc \notin {"idle", "returned"}
    /\ ~ctxDone
    /\ ctxDone' = TRUE
    /\ UNCHANGED <<impl, integrator, metrics, cfg, pc, x, t, dt, u, i, steps,
                   x0, newX, res, ret, mi, adt, usedDt, calls>>
    /\ UNCHANGED outsideSimulator

\* the caller is done with what Run returned; the Simulator and its metrics
\* stay as the run left them and Run may be called again
Discard ==
    /\ pc = "returned"
    /\ pc' = "idle"
    /\ cfg' = ZeroCfg /\ ctxDone' = FALSE
    /\ x' = <<>> /\ t' = 0 /\ dt' = 0 /\ u' = <<>> /\ i' = 0 /\ steps' = 0
    /\ x0' = <<>> /\ newX' = <<>>
    /\ res' = EmptyResult /\ ret' = Nil
    /\ mi' = 1 /\ adt' = 0 /\ usedDt' = 0 /\ calls' = <<>>
    /\ UNCHANGED <<impl, integrator, metrics>>
    /\ UNCHANGED outsideSimulator

Next ==
    \/ RunCall
    \/ ResetMetric
    \/ Start
    \/ LoopTop
    \/ ControllerCompute
    \/ Observe
    \/ OnStep
    \/ PlainStep
    \/ AdaptiveStepRK45
    \/ AdaptiveStepCall
    \/ AdaptiveStepFallback
    \/ Post
    \/ Harvest
    \/ Cancel
    \/ Discard

\* every halving of adaptiveStep's dt is exact on the model's integers
HalvingExact == (pc = "adaptiveStep" /\ adt > cfg.MinDt) => adt % 2 = 0

(* ------------------------------ Ensemble ------------------------------ *)

Trials == 0..(NumRuns - 1)

\* e.seedStart
SeedStarts == {0, 10}

\* the cfg Ensemble.Run is called with: two steps of dt = 1, or a dt of 0
EnsembleConfigs ==
    {[Dt |-> d, Duration |-> 2, Tolerance |-> 0, MinDt |-> 1, MaxDt |-> 2,
      Adaptive |-> FALSE, ValidateState |-> FALSE, Seed |-> 0] : d \in {0, 1}}

\* the x0 Ensemble.Run is called with
EnsembleX0 == <<Fin(1)>>

\* the instances the base Simulator holds: e.base.integrator,
\* e.base.controller and the elements of e.base.metrics
BaseInstances == [integrator |-> "base", controller |-> "base", metrics |-> "base"]

\* New(e.base.dyn, e.base.integrator, e.base.controller) and the AddMetric
\* loop: the trial's Simulator holds the very instances of the base
NewTrialSimulator(idx) == BaseInstances

\* a goroutine not yet started
Unborn ==
    [pc |-> "unborn", cfg |-> ZeroCfg, sim |-> Nil, x |-> <<>>, u |-> <<>>, i |-> 0,
     steps |-> 0, res |-> EmptyResult, ret |-> Nil]

\* an error value, marked with the trial whose Run returned it
ErrorOf(err, idx) == [kind |-> err.kind, trial |-> idx]

\* a Result, marked with the trial whose Run returned it
ResultOf(r, idx) ==
    [States |-> r.States, Controls |-> r.Controls, Metrics |-> r.Metrics, trial |-> idx]

EnsembleInit ==
    /\ eCall = Nil
    /\ ePc = "idle"
    /\ eSpawned = 0
    /\ wg = 0
    /\ eCtxDone = FALSE
    /\ trial = [idx \in Trials |-> Unborn]
    /\ results = [idx \in Trials |-> Nil]
    /\ errs = [idx \in Trials |-> Nil]
    /\ eRet = Nil
    /\ scratch = <<>>
    /\ baseMetric = [sum |-> 0, samples |-> 0]

\* Ensemble.Run(ctx, x0, cfg): results and errs are allocated
EnsembleRunCall ==
    /\ ePc = "idle"
    /\ \E c \in EnsembleConfigs, ss \in SeedStarts :
         eCall' = [cfg |-> c, x0 |-> EnsembleX0, seedStart |-> ss]
    /\ ePc' = "spawning"
    /\ UNCHANGED <<eSpawned, wg, eCtxDone, trial, results, errs, eRet, scratch,
                   baseMetric>>
    /\ UNCHANGED outsideEnsemble

\* for i := 0; i < e.numRuns; i++ { wg.Add(1); go func(idx int) {...}(i) }
Spawn ==
    /\ ePc = "spawning" /\ eSpawned < NumRuns
    /\ wg' = wg + 1
    /\ trial' = [trial EXCEPT ![eSpawned].pc = "start"]
    /\ eSpawned' = eSpawned + 1
    /\ ePc' = (IF eSpawned + 1 = NumRuns THEN "wait" ELSE "spawning")
    /\ UNCHANGED <<eCall, eCtxDone, results, errs, eRet, scratch, baseMetric>>
    /\ UNCHANGED outsideEnsemble

\* results[idx], errs[idx] = <what sim.Run returned>, then the deferred
\* wg.Done(); tr is the goroutine's record at the return
TrialReturns(idx, tr, r, err) ==
    /\ trial' = [trial EXCEPT ![idx] = [tr EXCEPT !.pc = "done",
                                                  !.ret = [result |-> r, err |-> err]]]
    /\ results' = [results EXCEPT ![idx] = r]
    /\ errs' = [errs EXCEPT ![idx] = err]
    /\ wg' = wg - 1

\* LQR.Compute with the gain matrix [[-1]]: u = -K x
Feedback(xs) == <<Fin(xs[1].val)>>

\* the goroutine up to the loop of sim.Run: cfgCopy.Seed, New, AddMetric, then in
\* Run the validation, the Reset of the metrics and the first pushed state; the
\* metric of the trial's Simulator is the base Simulator's
TrialStart(idx) ==
    /\ trial[idx].pc = "start"
    /\ LET cfgCopy == [eCall.cfg EXCEPT !.Seed = eCall.seedStart + idx]
           tr == [trial[idx] EXCEPT !.cfg = cfgCopy, !.sim = NewTrialSimulator(idx)]
       IN  IF validateConfig(cfgCopy) # Nil
           THEN /\ TrialReturns(idx, tr, Nil, ErrorOf(validateConfig(cfgCopy), idx))
                /\ UNCHANGED baseMetric
           ELSE /\ baseMetric' = [sum |-> 0, samples |-> 0]
                /\ trial' = [trial EXCEPT ![idx] =
                               [tr EXCEPT !.pc = "loop",
                                          !.steps = StepCount(cfgCopy),
                                          !.x = eCall.x0,
                                          !.i = 0,
                                          !.res = [EmptyResult EXCEPT
                                                     !.States = <<eCall.x0>>,
                                                     !.Times = <<0>>]]]
                /\ UNCHANGED <<results, errs, wg>>
    /\ UNCHANGED <<eCall, ePc, eSpawned, eCtxDone, eRet, scratch>>
    /\ UNCHANGED outsideEnsemble

\* the loop head of sim.Run: the select on ctx.Done(), controller.Compute and
\* the metric's Observe, or after the last step the harvest of the metric's
\* Value and the return.  A call on the shared metric is one step here: the
\* trials' calls interleave, the loads and stores inside one call do not
TrialLoopTop(idx) ==
    /\ trial[idx].pc = "loop"
    /\ LET tr == trial[idx]
           uu == Feedback(tr.x)
           r == [tr.res EXCEPT !.Metrics = <<Value(baseMetric)>>]
       IN  IF tr.i < tr.steps
           THEN IF eCtxDone
                THEN /\ TrialReturns(idx, tr, ResultOf(tr.res, idx), ErrorOf(CtxErr, idx))
                     /\ UNCHANGED baseMetric
                ELSE /\ trial' = [trial EXCEPT ![idx].pc = "stage", ![idx].u = uu]
                     /\ baseMetric' = ObserveMetric(baseMetric, uu)
                     /\ UNCHANGED <<results, errs, wg>>
           ELSE /\ TrialReturns(idx, [tr EXCEPT !.res = r], ResultOf(r, idx), Nil)
                /\ UNCHANGED baseMetric
    /\ UNCHANGED <<eCall, ePc, eSpawned, eCtxDone, eRet, scratch>>
    /\ UNCHANGED outsideEnsemble

\* r.scratch[i] = x[i] + dt*0.5*r.k1[i], for the dynamics dx/dt = 2 u and dt = 1
StageValue(xs, us) == <<Fin(xs[1].val + us[1].val)>>

\* result[i] = x[i] + dt6*(...), computed from the stage held in r.scratch;
\* the state space is the integers modulo 5
CombineValue(xs, sc) == <<Fin((xs[1].val + sc[1].val + 1) % 5)>>

\* integrator.Step, first half: the stage is written into the integrator's scratch
TrialStage(idx) ==
    /\ trial[idx].pc = "stage"
    /\ scratch' = StageValue(trial[idx].x, trial[idx].u)
    /\ trial' = [trial EXCEPT ![idx].pc = "combine"]
    /\ UNCHANGED <<eCall, ePc, eSpawned, wg, eCtxDone, results, errs, eRet,
                   baseMetric>>
    /\ UNCHANGED outsideEnsemble

\* integrator.Step, second half, which reads the scratch, and the rest of the
\* loop body: x = newX, the pushes, i++
TrialCombine(idx) ==
    /\ trial[idx].pc = "combine"
    /\ LET tr == trial[idx]
           nx == CombineValue(tr.x, scratch)
       IN  trial' = [trial EXCEPT
                       ![idx].pc = "loop",
                       ![idx].x = nx,
                       ![idx].i = tr.i + 1,
                       ![idx].res = [tr.res EXCEPT !.StepsTaken = @ + 1,
                                                   !.States = Append(@, nx),
                                                   !.Controls = Append(@, tr.u),
                                                   !.Times = Append(@, tr.i + 1)]]
    /\ UNCHANGED <<eCall, ePc, eSpawned, wg, eCtxDone, results, errs, eRet, scratch,
                   baseMetric>>
    /\ UNCHANGED outsideEnsemble

\* the caller cancels the ctx it gave to Ensemble.Run
EnsembleCancel ==
    /\ ePc \in {"spawning", "wait"}
    /\ ~eCtxDone
    /\ eCtxDone' = TRUE
    /\ UNCHANGED <<eCall, ePc, eSpawned, wg, trial, results, errs, eRet, scratch,
                   baseMetric>>
    /\ UNCHANGED outsideEnsemble

\* the error of the highest index instead of the lowest
FirstError_Last(es) ==
    IF \A idx \in Trials : es[idx] = Nil THEN Nil
    ELSE es[CHOOSE idx \in Trials :
               es[idx] # Nil /\ \A j \in Trials : j > idx => es[j] = Nil]

\* for _, err := range errs { if err != nil { return nil, err } }
FirstError(es) ==
    IF \A idx \in Trials : es[idx] = Nil THEN Nil
    ELSE es[CHOOSE idx \in Trials :
               es[idx] # Nil /\ \A j \in Trials : j < idx => es[j] = Nil]

\* wg.Wait() returns, then the scan of errs and the return
EnsembleWait ==
    /\ ePc = "wait" /\ wg = 0
    /\ eRet' = (IF FirstError(errs) # Nil
                THEN [results |-> Nil, err |-> FirstError(errs)]
                ELSE [results |-> results, err |-> Nil])
    /\ ePc' = "returned"
    /\ UNCHANGED <<eCall, eSpawned, wg, eCtxDone, trial, results, errs, scratch,
                   baseMetric>>
    /\ UNCHANGED outsideEnsemble

EnsembleNext ==
    \/ EnsembleRunCall
    \/ Spawn
    \/ \E idx \in Trials : TrialStart(idx)
    \/ \E idx \in Trials : TrialLoopTop(idx)
    \/ \E idx \in Trials : TrialStage(idx)
    \/ \E idx \in Trials : TrialCombine(idx)
    \/ EnsembleCancel
    \/ EnsembleWait

(* -------------------------------- PID --------------------------------- *)
\* The PID's float64 arithmetic is done on integers; positions and targets
\* are even and time differences are 1 or 2, so that the division of the
\* derivative is exact (DerivativeExact).

\* the gains and target a PID is constructed with
PIDParams ==
    {[Kp |-> 1, Ki |-> 1, Kd |-> 0, Target |-> 2],
     [Kp |-> 2, Ki |-> 0, Kd |-> 1, Target |-> 2],
     [Kp |-> 1, Ki |-> 1, Kd |-> 1, Target |-> 0]}

\* the states Compute is called with: one or two components, x[0] even
PIDStates == {<<0>>, <<4>>, <<0, 0>>, <<2, 1>>, <<4, 0>>}

\* the times Compute is called with
PIDTimes == 0..2

\* NewPID(kp, ki, kd, target)
NewPID(g) ==
    [Kp |-> g.Kp, Ki |-> g.Ki, Kd |-> g.Kd, Target |-> g.Target,
     integral |-> 0, prevErr |-> 0, prevT |-> 0, first |-> TRUE]

\* Compute with the guard dt >= 0 in place of dt > 0; a dt of 0 leaves the
\* derivative out
PIDCompute_GuardNotStrict(p, xs, tt) ==
    IF Len(xs) < 2 THEN [pid |-> p, u |-> <<0>>]
    ELSE LET err == p.Target - xs[1]
             d == tt - p.prevT
             integ == p.integral + err * d
             deriv == IF d = 0 THEN 0 ELSE (err - p.prevErr) \div d
         IN  IF p.first
             THEN [pid |-> [p EXCEPT !.prevErr = err, !.prevT = tt, !.first = FALSE],
                   u |-> <<p.Kp * err>>]
             ELSE IF d >= 0
             THEN [pid |-> [p EXCEPT !.integral = integ, !.prevErr = err, !.prevT = tt],
                   u |-> <<p.Kp * err + p.Ki * integ + p.Kd * deriv>>]
             ELSE [pid |-> p, u |-> <<p.Kp * err>>]

\* (p *PID) Compute(x, t): the fields after the call and the Control returned
PIDCompute(p, xs, tt) ==
    IF Len(xs) < 2 THEN [pid |-> p, u |-> <<0>>]
    ELSE LET err == p.Target - xs[1]
             d == tt - p.prevT
             integ == p.integral + err * d
             deriv == (err - p.prevErr) \div d
         IN  IF p.first
             THEN [pid |-> [p EXCEPT !.prevErr = err, !.prevT = tt, !.first = FALSE],
                   u |-> <<p.Kp * err>>]
             ELSE IF d > 0
             THEN [pid |-> [p EXCEPT !.integral = integ, !.prevErr = err, !.prevT = tt],
                   u |-> <<p.Kp * err + p.Ki * integ + p.Kd * deriv>>]
             ELSE [pid |-> p, u |-> <<p.Kp * err>>]

\* Reset that leaves the first-call flag as it is
PIDResetFields_KeepFirst(p) == [p EXCEPT !.integral = 0, !.prevErr = 0]

\* (p *PID) Reset()
PIDResetFields(p) == [p EXCEPT !.integral = 0, !.prevErr = 0, !.first = TRUE]

\* no Run in progress
NoRun == [pc |-> "idle", x0 |-> <<>>, x |-> <<>>, t |-> 0, i |-> 0,
          States |-> <<>>, Controls |-> <<>>]

\* no call yet
NoCall == [op |-> "none", x |-> <<>>, t |-> 0, before |-> Nil, afterReset |-> FALSE]

PIDInit ==
    /\ pid \in {NewPID(g) : g \in PIDParams}
    /\ pidOut = <<>>
    /\ pidLast = NoCall
    /\ pidCalls = 0
    /\ pidRun = NoRun
    /\ pidRuns = <<>>

\* the record of a call
PIDCall(op, xs, tt) ==
    [op |-> op, x |-> xs, t |-> tt, before |-> pid, afterReset |-> pidLast.op = "Reset"]

\* a caller calls p.Compute(x, t)
PIDComputeCall ==
    /\ pidRun.pc = "idle" /\ pidCalls < MaxCalls
    /\ \E xs \in PIDStates, tt \in PIDTimes :
         /\ pid' = PIDCompute(pid, xs, tt).pid
         /\ pidOut' = PIDCompute(pid, xs, tt).u
         /\ pidLast' = PIDCall("Compute", xs, tt)
    /\ pidCalls' = pidCalls + 1
    /\ UNCHANGED <<pidRun, pidRuns>>
    /\ UNCHANGED outsidePID

\* a caller calls p.Reset()
PIDResetCall ==
    /\ pidRun.pc = "idle" /\ pidLast.op # "Reset"
    /\ pid' = PIDResetFields(pid)
    /\ pidLast' = PIDCall("Reset", <<>>, 0)
    /\ UNCHANGED <<pidOut, pidCalls, pidRun, pidRuns>>
    /\ UNCHANGED outsidePID

\* the cfg of the runs: two steps of dt = 1
PIDRunCfg == [Dt |-> 1, Duration |-> 2]

\* the x0 of the runs
PIDRunX0 == {<<0, 0>>, <<4, 0>>}

\* integrator.Step for dt = 1 and the dynamics dpos/dt = 2 u, dvel/dt = 0, the
\* positions being the even numbers modulo 6
PlantStep(xs, us) == <<(xs[1] + 2 * us[1]) % 6, xs[2]>>

\* Simulator.Run(ctx, x0, cfg) on the Simulator whose controller is the PID, up
\* to the loop: the controller is not touched
PIDRunCall ==
    /\ pidRun.pc = "idle"
    /\ Len(pidRuns) < 2
    /\ pidCalls + StepCount(PIDRunCfg) <= MaxCalls
    /\ \E xinit \in PIDRunX0 :
         pidRun' = [pc |-> "loop", x0 |-> xinit, x |-> xinit, t |-> 0, i |-> 0,
                    States |-> <<xinit>>, Controls |-> <<>>]
    /\ UNCHANGED <<pid, pidOut, pidLast, pidCalls, pidRuns>>
    /\ UNCHANGED outsidePID

\* one iteration of Run's loop: u := s.controller.Compute(x, t), the
\* integrator step, t += dt and the pushes
PIDRunStep ==
    /\ pidRun.pc = "loop" /\ pidRun.i < StepCount(PIDRunCfg)
    /\ LET c == PIDCompute(pid, pidRun.x, pidRun.t)
           nx == PlantStep(pidRun.x, c.u)
       IN  /\ pid' = c.pid
           /\ pidOut' = c.u
           /\ pidLast' = PIDCall("Compute", pidRun.x, pidRun.t)
           /\ pidRun' = [pidRun EXCEPT !.x = nx,
                                       !.t = @ + PIDRunCfg.Dt,
                                       !.i = @ + 1,
                                       !.States = Append(@, nx),
                                       !.Controls = Append(@, c.u)]
    /\ pidCalls' = pidCalls + 1
    /\ UNCHANGED pidRuns
    /\ UNCHANGED outsidePID

\* Run returns its Result after the last step
PIDRunReturn ==
    /\ pidRun.pc = "loop" /\ pidRun.i = StepCount(PIDRunCfg)
    /\ pidRuns' = Append(pidRuns, [x0 |-> pidRun.x0, States |-> pidRun.States,
                                   Controls |-> pidRun.Controls])
    /\ pidRun' = NoRun
    /\ UNCHANGED <<pid, pidOut, pidLast, pidCalls>>
    /\ UNCHANGED outsidePID

PIDNext ==
    \/ PIDComputeCall
    \/ PIDResetCall
    \/ PIDRunCall
    \/ PIDRunStep
    \/ PIDRunReturn

\* every division Compute performs is exact on the model's integers
DerivativeExact ==
    (pidLast.op = "Compute" /\ Len(pidLast.x) >= 2 /\ ~pidLast.before.first
       /\ pidLast.t > pidLast.before.prevT) =>
        ((pidLast.before.Target - pidLast.x[1]) - pidLast.before.prevErr)
            % (pidLast.t - pidLast.before.prevT) = 0

(* ------------------------------ metrics ------------------------------- *)
\* Energies are integers: an angle is a whole multiple of pi, the pendulum
\* has mass 2, length 1 and gravity 1, so that 0.5 m (L omega)^2 is omega^2
\* and m g L (1 - cos theta) is 0 or 4.  A Value is the fraction
\* <<numerator, denominator>> with a positive denominator.

\* math.Cos of k pi
CosPi(k) == IF k % 2 = 0 THEN 1 ELSE -1

\* ke + pe of Energy.Observe, which is also Pendulum.Energy
PendulumEnergy(mass, length, gravity, xs) ==
    (mass * length * length * xs[2] * xs[2]) \div 2
        + mass * gravity * length * (1 - CosPi(xs[1]))

\* NewEnergy(2, 1, 1), NewEnergyDrift(dyn) with a Pendulum and with a system
\* that is no Hamiltonian, NewControlEffort()
NewMetrics ==
    {[kind |-> "energy", mass |-> 2, length |-> 1, gravity |-> 1,
      samples |-> 0, totalEnergy |-> 0],
     [kind |-> "energy_drift", hamiltonian |-> TRUE, initialEnergy |-> 0,
      currentEnergy |-> 0, maxDrift |-> <<0, 1>>, samples |-> 0],
     [kind |-> "energy_drift", hamiltonian |-> FALSE, initialEnergy |-> 0,
      currentEnergy |-> 0, maxDrift |-> <<0, 1>>, samples |-> 0],
     [kind |-> "control_effort", sum |-> 0, samples |-> 0]}

\* the states Observe is called with: <<theta / pi, omega>>, or one component
MetricStates == {<<0, 0>>, <<0, 2>>, <<1, 0>>, <<1, 4>>, <<1>>}

\* the controls Observe is called with
MetricControls == {<<>>, <<Fin(1)>>, <<Fin(-3)>>}

\* math.Max of two fractions
FracMax(p, q) == IF p[1] * q[2] >= q[1] * p[2] THEN p ELSE q

\* Energy.Observe
EnergyObserve(m, xs) ==
    IF Len(xs) < 2 THEN m
    ELSE [m EXCEPT !.totalEnergy = @ + PendulumEnergy(m.mass, m.length, m.gravity, xs),
                   !.samples = @ + 1]

\* Energy.Value
EnergyValue(m) == IF m.samples = 0 THEN <<0, 1>> ELSE <<m.totalEnergy, m.samples>>

\* Energy.Reset
EnergyReset(m) == [m EXCEPT !.totalEnergy = 0, !.samples = 0]

\* EnergyDrift.Observe; the dyn is the pendulum of NewEnergy's parameters
DriftObserve(m, xs) ==
    IF ~m.hamiltonian THEN m
    ELSE LET energy == PendulumEnergy(2, 1, 1, xs)
             e0 == IF m.samples = 0 THEN energy ELSE m.initialEnergy
             drift == <<Abs(energy - e0), Abs(e0)>>
         IN  [m EXCEPT !.initialEnergy = e0,
                       !.currentEnergy = energy,
                       !.samples = @ + 1,
                       !.maxDrift = IF e0 # 0 THEN FracMax(@, drift) ELSE @]

\* EnergyDrift.Value
DriftValue(m) == m.maxDrift

\* Reset that leaves the largest drift as it is
DriftReset_KeepMaxDrift(m) ==
    [m EXCEPT !.initialEnergy = 0, !.currentEnergy = 0, !.samples = 0]

\* EnergyDrift.Reset
DriftReset(m) ==
    [m EXCEPT !.initialEnergy = 0, !.currentEnergy = 0, !.maxDrift = <<0, 1>>,
              !.samples = 0]

\* ControlEffort.Reset
EffortReset(m) == [m EXCEPT !.sum = 0, !.samples = 0]

\* m.Observe(x, u, t) on a Metric
MetricObserve(m, xs, us) ==
    CASE m.kind = "energy" -> EnergyObserve(m, xs)
      [] m.kind = "energy_drift" -> DriftObserve(m, xs)
      [] m.kind = "control_effort" ->
           [m EXCEPT !.sum = ObserveMetric(m, us).sum,
                     !.samples = ObserveMetric(m, us).samples]

\* m.Value() on a Metric
MetricValue(m) ==
    CASE m.kind = "energy" -> EnergyValue(m)
      [] m.kind = "energy_drift" -> DriftValue(m)
      [] m.kind = "control_effort" -> Value(m)

\* m.Reset() on a Metric
MetricReset(m) ==
    CASE m.kind = "energy" -> EnergyReset(m)
      [] m.kind = "energy_drift" -> DriftReset(m)
      [] m.kind = "control_effort" -> EffortReset(m)

\* no call on the metric yet
NoMetricCall == [op |-> "none", x |-> <<>>, u |-> <<>>, afterReset |-> FALSE]

MetricInit ==
    /\ met \in NewMetrics
    /\ metLast = NoMetricCall
    /\ metBeforeReset = Nil
    /\ metObs = 0

\* a caller calls m.Observe(x, u, t); an EnergyDrift is given states of two
\* components, which Pendulum.Energy indexes
MetricObserveCall ==
    /\ metObs < MaxObserves
    /\ \E xs \in MetricStates, us \in MetricControls :
         /\ (Len(xs) < 2 => met.kind # "energy_drift")
         /\ met' = MetricObserve(met, xs, us)
         /\ metLast' = [op |-> "Observe", x |-> xs, u |-> us,
                        afterReset |-> metLast.op = "Reset"]
    /\ metObs' = metObs + 1
    /\ UNCHANGED metBeforeReset
    /\ UNCHANGED outsideMetric

\* a caller calls m.Reset()
MetricResetCall ==
    /\ metLast.op # "Reset"
    /\ met' = MetricReset(met)
    /\ metBeforeReset' = met
    /\ metLast' = [op |-> "Reset", x |-> <<>>, u |-> <<>>, afterReset |-> FALSE]
    /\ UNCHANGED metObs
    /\ UNCHANGED outsideMetric

MetricNext ==
    \/ MetricObserveCall
    \/ MetricResetCall

(* ---------------------------- GPU backend ----------------------------- *)
\* The trials of one Ensemble hold the same NBody (e.base.dyn) and the one
\* active backend.  A state is named by the trial and the call it belongs to.

\* no state
NoState == [trial |-> -1, call |-> 0]

GPUInit ==
    /\ gpuCfg \in [useGPU : BOOLEAN, available : BOOLEAN]
    /\ nbPositions = NoState
    /\ caller = [idx \in Trials |->
                   [pc |-> "idle", calls |-> 0, posF |-> NoState, forcesOf |-> NoState]]

\* the integrator of trial idx calls nb.Derive(x, u, t): x is copied into
\* nb.positions
Derive(idx) ==
    /\ caller[idx].pc = "idle" /\ caller[idx].calls < MaxDerives
    /\ nbPositions' = [trial |-> idx, call |-> caller[idx].calls + 1]
    /\ caller' = [caller EXCEPT ![idx].pc = "forces", ![idx].calls = @ + 1]
    /\ UNCHANGED gpuCfg
    /\ UNCHANGED outsideGPU

\* the branch of Derive on nb.UseGPU && n >= 32: computeForcesCPU(x), which
\* reads x, or the call of the backend's NBodyForces, which up to its call of
\* C.nbody_gpu converts nb.positions into posF; a CUDABackend that is not
\* available computes on the CPU from the positions it was given
NBodyForces(idx) ==
    /\ caller[idx].pc = "forces"
    /\ IF ~gpuCfg.useGPU
       THEN caller' = [caller EXCEPT
                         ![idx].pc = "idle",
                         ![idx].forcesOf = [trial |-> idx, call |-> caller[idx].calls]]
       ELSE IF ~gpuCfg.available
       THEN caller' = [caller EXCEPT ![idx].pc = "idle", ![idx].forcesOf = nbPositions]
       ELSE caller' = [caller EXCEPT ![idx].pc = "launch", ![idx].posF = nbPositions]
    /\ UNCHANGED <<gpuCfg, nbPositions>>
    /\ UNCHANGED outsideGPU

\* C.nbody_gpu is entered: the buffers are allocated, the inputs copied to the
\* device and the kernel launched; nothing is locked before
KernelLaunch(idx) ==
    /\ caller[idx].pc = "launch"
    /\ caller' = [caller EXCEPT ![idx].pc = "kernel"]
    /\ UNCHANGED <<gpuCfg, nbPositions>>
    /\ UNCHANGED outsideGPU

\* the kernel has run: C.nbody_gpu copies the accelerations back, frees the
\* buffers and returns
KernelDone(idx) ==
    /\ caller[idx].pc = "kernel"
    /\ caller' = [caller EXCEPT ![idx].pc = "copyback"]
    /\ UNCHANGED <<gpuCfg, nbPositions>>
    /\ UNCHANGED outsideGPU

\* NBodyForces converts axF, ayF and returns; Derive goes on with the forces
NBodyForcesReturn(idx) ==
    /\ caller[idx].pc = "copyback"
    /\ caller' = [caller EXCEPT ![idx].pc = "idle", ![idx].forcesOf = caller[idx].posF]
    /\ UNCHANGED <<gpuCfg, nbPositions>>
    /\ UNCHANGED outsideGPU

GPUNext ==
    \/ \E idx \in Trials : Derive(idx)
    \/ \E idx \in Trials : NBodyForces(idx)
    \/ \E idx \in Trials : KernelLaunch(idx)
    \/ \E idx \in Trials : KernelDone(idx)
    \/ \E idx \in Trials : NBodyForcesReturn(idx)

(* ------------------------ Verlet and Leapfrog ------------------------- *)
\* Step has no error result: a call returns a state or panics.  The numbers
\* are integers and dt is even, so that 0.5*dt and 0.5*dx*dt*dt are exact.

\* the systems Step is called with: a Lorenz whose beta was set to 3, and a
\* SpringMass of one mass with Masses, Stiffness = [1] and Damping = [0]
SymSystems == {"lorenz", "springmass"}
SymStateVals == {0, 2}
SymStates == UNION {[1..n -> SymStateVals] : n \in 1..4}
SymDts == {2, 4}

Zeros(n) == [k \in 1..n |-> 0]

\* the least state length for which the system's Derive indexes inside x
DeriveNeeds(sys) == IF sys = "lorenz" THEN 3 ELSE 2

\* Lorenz.Derive (sigma 10, rho 28, beta 3) and SpringMass.Derive (no control)
SysDerive(sys, xs) ==
    IF sys = "lorenz"
    THEN <<10 * (xs[2] - xs[1]), xs[1] * (28 - xs[3]) - xs[2], xs[1] * xs[2] - 3 * xs[3]>>
    ELSE <<xs[2], 0 - xs[1]>>

RuntimePanic == [kind |-> "runtime error: index out of range"]

\* ensureScratch(n), and the same test at the top of Leapfrog.Step
EnsureScratch(sc, n) == IF Len(sc) # n THEN Zeros(n) ELSE sc

\* Verlet.Step: the scratch it leaves, and the state it returns or its panic
VerletStep(sys, sc, xs, d) ==
    LET n == Len(xs)
        half == n \div 2
        sc0 == EnsureScratch(sc, n)
    IN  IF n < DeriveNeeds(sys) \/ 2 * half > Len(SysDerive(sys, xs))
        THEN [scratch |-> sc0, result |-> Nil, panic |-> RuntimePanic]
        ELSE
          LET dx == SysDerive(sys, xs)
              q == [k \in 1..half |-> xs[k] + xs[half + k] * d
                                       + (dx[half + k] * d * d) \div 2]
              sc1 == [k \in 1..n |-> IF k <= half THEN q[k]
                                     ELSE IF k <= 2 * half THEN xs[k]
                                     ELSE sc0[k]]
              dxNew == SysDerive(sys, sc1)
          IN  [scratch |-> sc1,
               result |-> [k \in 1..n |->
                             IF k <= half THEN q[k]
                             ELSE IF k <= 2 * half
                             THEN xs[k] + ((dx[k] + dxNew[k]) * d) \div 2
                             ELSE 0],
               panic |-> Nil]

\* Leapfrog.Step; a dx shorter than 2*half stops the first loop after the
\* velocities of scratch it has already written
LeapfrogStep(sys, sc, xs, d) ==
    LET n == Len(xs)
        half == n \div 2
        sc0 == EnsureScratch(sc, n)
        halfDt == d \div 2
    IN  IF n < DeriveNeeds(sys)
        THEN [scratch |-> sc0, result |-> Nil, panic |-> RuntimePanic]
        ELSE
          LET dx == SysDerive(sys, xs)
              kick == [k \in 1..n |->
                         IF k > half /\ k <= 2 * half /\ k <= Len(dx)
                         THEN xs[k] + dx[k] * halfDt
                         ELSE sc0[k]]
          IN  IF 2 * half > Len(dx)
              THEN [scratch |-> kick, result |-> Nil, panic |-> RuntimePanic]
              ELSE
                LET q == [k \in 1..half |-> xs[k] + kick[half + k] * d]
                    sc1 == [k \in 1..n |-> IF k <= half THEN q[k] ELSE kick[k]]
                    dxNew == SysDerive(sys, sc1)
                IN  [scratch |-> sc1,
                     result |-> [k \in 1..n |->
                                   IF k <= half THEN q[k]
                                   ELSE IF k <= 2 * half
                                   THEN sc1[k] + dxNew[k] * halfDt
                                   ELSE 0],
                     panic |-> Nil]

\* NewVerlet(), NewLeapfrog() and one system
SymInit ==
    /\ sym \in [sys : SymSystems, verlet : {<<>>}, leapfrog : {<<>>}]
    /\ symLast = Nil

\* a caller calls v.Step(dyn, x, u, t, dt)
VerletStepCall ==
    \E xs \in SymStates, d \in SymDts :
        LET r == VerletStep(sym.sys, sym.verlet, xs, d) IN
          /\ sym' = [sym EXCEPT !.verlet = r.scratch]
          /\ symLast' = [on |-> "verlet", x |-> xs, dt |-> d,
                         result |-> r.result, panic |-> r.panic]
          /\ UNCHANGED outsideSym

\* a caller calls l.Step(dyn, x, u, t, dt)
LeapfrogStepCall ==
    \E xs \in SymStates, d \in SymDts :
        LET r == LeapfrogStep(sym.sys, sym.leapfrog, xs, d) IN
          /\ sym' = [sym EXCEPT !.leapfrog = r.scratch]
          /\ symLast' = [on |-> "leapfrog", x |-> xs, dt |-> d,
                         result |-> r.result, panic |-> r.panic]
          /\ UNCHANGED outsideSym

SymNext ==
    \/ VerletStepCall
    \/ LeapfrogStepCall

(* --------------------------- Configurable ----------------------------- *)
\* Parameter values are counted in units of 1/300.

MaxParamSteps == 3

TunKinds == {"duffing", "pendulum", "lorenz", "pid"}

\* NewDuffing(), NewPendulum(), NewLorenz(), NewPID(1, 0, 0, 0)
NewTunable(kind) ==
    [kind |-> kind,
     params |->
       CASE kind = "duffing" ->
              [alpha |-> -300, beta |-> 300, delta |-> 90, gamma |-> 150, omega |-> 360]
         [] kind = "pendulum" ->
              [mass |-> 300, length |-> 300, damping |-> 30, gravity |-> 2943]
         [] kind = "lorenz" -> [sigma |-> 3000, rho |-> 8400, beta |-> 800]
         [] OTHER -> [Kp |-> 300, Ki |-> 0, Kd |-> 0, Target |-> 0]]

\* GetParams(): the map of the parameters
GetParams(c) == c.params

UnknownParam(n) == [kind |-> "unknown param", name |-> n]

\* SetParam(name, value): the switch over the names, whose default case
\* returns an error in Pendulum alone; Lorenz's and PID's return nothing
SetParam(c, n, v) ==
    IF n \in DOMAIN c.params
    THEN [c |-> [c EXCEPT !.params[n] = v], err |-> Nil]
    ELSE [c |-> c, err |-> IF c.kind = "pendulum" THEN UnknownParam(n) ELSE Nil]

ParamNames == {"gamma", "beta", "mass", "Kp", "sigma", "nope"}
ParamValues == {0, 150, 300}

TunInit ==
    /\ tun \in {NewTunable(kind) : kind \in TunKinds}
    /\ tunLast = Nil
    /\ bif = Nil

\* a caller calls SetParam(n, v)
SetParamCall ==
    \E n \in ParamNames, v \in ParamValues :
        LET r == SetParam(tun, n, v) IN
          /\ tun' = r.c
          /\ tunLast' = [name |-> n, value |-> v, before |-> tun.params, err |-> r.err]
          /\ UNCHANGED bif
          /\ UNCHANGED outsideTun

\* a caller reads GetParams() and forgets the last call
GetParamsCall ==
    /\ tunLast # Nil
    /\ tunLast' = Nil
    /\ UNCHANGED <<tun, bif>>
    /\ UNCHANGED outsideTun

TunNext ==
    \/ SetParamCall
    \/ GetParamsCall

(* ------------------------- BifurcationDiagram ------------------------- *)

\* the systems: dyn.(dynamo.Configurable) holds for those whose SetParam
\* returns an error
BifKinds == {"duffing", "pendulum", "lorenz"}
IsConfigurable(c) == c.kind \in {"duffing", "pendulum"}
StateDim(c) == IF c.kind = "pendulum" THEN 2 ELSE 3

\* the arguments: paramMax is paramMin + paramStep * (paramSteps - 1), with
\* paramSteps already raised to 2 when the caller gave less, so that
\* paramStep is exact
BifNames == {"gamma", "damping", "nope"}
BifParamMins == {90, 150}
BifParamSteps == {-60, 0, 60}
BifStepCounts == {0} \cup (2..MaxParamSteps)
BifStateIndexes == {0, 2}
BifRecords == {0, 1}
BifValues == {0, 1}

BifIdle == [pc |-> "idle"]

BifInit ==
    /\ tun \in {NewTunable(kind) : kind \in BifKinds}
    /\ tunLast = Nil
    /\ bif = BifIdle

\* BifurcationDiagram is called: the type assertion, results, paramSteps and
\* paramStep
BifurcationDiagram(name, pmin, pstep, count, stateIndex, record) ==
    /\ bif.pc = "idle"
    /\ bif' = [pc |-> IF IsConfigurable(tun) THEN "sweep" ELSE "returned",
               paramName |-> name, paramMin |-> pmin, paramStep |-> pstep,
               paramSteps |-> IF count <= 1 THEN 2 ELSE count,
               stateIndex |-> stateIndex, record |-> record,
               i |-> 0,
               results |-> IF IsConfigurable(tun) THEN <<>> ELSE Nil,
               before |-> tun.params]
    /\ UNCHANGED <<tun, tunLast>>
    /\ UNCHANGED outsideTun

BifurcationDiagramCall ==
    /\ bif.pc = "idle"
    /\ \E name \in BifNames, pmin \in BifParamMins, pstep \in BifParamSteps,
          count \in BifStepCounts, stateIndex \in BifStateIndexes,
          record \in BifRecords :
         BifurcationDiagram(name, pmin, pstep, count, stateIndex, record)

\* one pass of the sweep loop: SetParam(paramName, param), the transient and
\* the recording loop (one Step when record > 0, whose x[stateIndex] is any
\* value the dynamics may produce), the append to results
SweepPoint ==
    /\ bif.pc = "sweep" /\ bif.i < bif.paramSteps
    /\ LET param == bif.paramMin + bif.i * bif.paramStep IN
         /\ tun' = SetParam(tun, bif.paramName, param).c
         /\ \E val \in BifValues :
              bif' = [bif EXCEPT
                        !.i = @ + 1,
                        !.results = Append(@,
                            [Param |-> param,
                             Values |-> IF bif.record > 0 /\ bif.stateIndex < StateDim(tun)
                                        THEN <<val>> ELSE <<>>])]
    /\ UNCHANGED tunLast
    /\ UNCHANGED outsideTun

\* after the loop: SetParam(paramName, paramMin) if there are results; return
SweepReturn ==
    /\ bif.pc = "sweep" /\ bif.i = bif.paramSteps
    /\ tun' = IF Len(bif.results) > 0
              THEN SetParam(tun, bif.paramName, bif.paramMin).c ELSE tun
    /\ bif' = [bif EXCEPT !.pc = "returned"]
    /\ UNCHANGED tunLast
    /\ UNCHANGED outsideTun

\* the caller drops what BifurcationDiagram returned
BifDiscard ==
    /\ bif.pc = "returned"
    /\ bif' = BifIdle
    /\ UNCHANGED <<tun, tunLast>>
    /\ UNCHANGED outsideTun

BifNext ==
    \/ BifurcationDiagramCall
    \/ SweepPoint
    \/ SweepReturn
    \/ BifDiscard

(* ------------------------------- Store -------------------------------- *)

MaxSaves == 3
MaxClock == 2

\* the model names, in the order of their bytes
StoreModels == <<"lorenz", "pendulum">>
StoreSeeds == {1, 2}
StoreStateCounts == {0, 2}

\* fmt.Sprintf("%s_%d", model, time.Now().Unix())
RunID(model, unix) == [model |-> model, unix |-> unix]

\* the RunMetadata Save builds
RunMetadata(id, model, seed) == [ID |-> id, Model |-> model, Seed |-> seed]

\* the place of a directory name in the sorted listing of os.ReadDir (the
\* seconds of the model all have the same number of digits)
DirOrder(id) ==
    (CHOOSE k \in 1..Len(StoreModels) : StoreModels[k] = id.model) * (MaxClock + 1) + id.unix

RECURSIVE ReadDir(_)
ReadDir(ids) ==
    IF ids = {} THEN <<>>
    ELSE LET first == CHOOSE a \in ids : \A b \in ids : DirOrder(a) <= DirOrder(b)
         IN  <<first>> \o ReadDir(ids \ {first})

\* List(): the metadata.json of every directory, in the order of ReadDir
List(dirs) ==
    LET names == ReadDir(DOMAIN dirs) IN [k \in 1..Len(names) |-> dirs[names[k]].meta]

NotExist == [kind |-> "no such file or directory"]

\* Load(runID)
Load(dirs, id) ==
    IF id \in DOMAIN dirs THEN [meta |-> dirs[id].meta, err |-> Nil]
    ELSE [meta |-> Nil, err |-> NotExist]

\* New(baseDir) and Init() on an empty directory
StoreInit ==
    /\ fs = <<>>
    /\ clock = 0
    /\ saves = <<>>
    /\ listed = Nil
    /\ loaded = Nil

\* a second passes
ClockTick ==
    /\ clock < MaxClock
    /\ clock' = clock + 1
    /\ UNCHANGED <<fs, saves, listed, loaded>>
    /\ UNCHANGED outsideStore

\* Save(model, ..., seed, ..., result) without an I/O error: MkdirAll of the
\* run directory, which may exist, then metadata.json and states.csv created
\* anew (os.Create truncates)
Save(model, seed, states) ==
    LET id == RunID(model, clock)
        files == [meta |-> RunMetadata(id, model, seed),
                  rows |-> IF states = 0 THEN 0 ELSE states + 1]
    IN  /\ Len(saves) < MaxSaves
        /\ fs' = [d \in DOMAIN fs \cup {id} |-> IF d = id THEN files ELSE fs[d]]
        /\ saves' = Append(saves, [id |-> id, meta |-> files.meta])
        /\ listed' = Nil
        /\ loaded' = Nil
        /\ UNCHANGED clock
        /\ UNCHANGED outsideStore

SaveCall ==
    \E k \in 1..Len(StoreModels), seed \in StoreSeeds, states \in StoreStateCounts :
        Save(StoreModels[k], seed, states)

ListCall ==
    /\ listed = Nil
    /\ listed' = [runs |-> List(fs)]
    /\ UNCHANGED <<fs, clock, saves, loaded>>
    /\ UNCHANGED outsideStore

\* Load with an ID that a Save returned
LoadCall ==
    /\ \E k \in 1..Len(saves) :
         /\ loaded' = [id |-> saves[k].id, call |-> k, ret |-> Load(fs, saves[k].id)]
         /\ loaded' # loaded
    /\ UNCHANGED <<fs, clock, saves, listed>>
    /\ UNCHANGED outsideStore

StoreNext ==
    \/ ClockTick
    \/ SaveCall
    \/ ListCall
    \/ LoadCall

(* -------------------------------- LQR --------------------------------- *)
\* The LQR of internal/control ("canonical") and the one of the legacy
\* package controllers ("legacy").  Gains and states are integers.

MaxRows == 2
MaxRowLen == 2
MaxStateLen == 3

SeqsUpTo(n, vals) == UNION {[1..k -> vals] : k \in 0..n}

LQRRows == SeqsUpTo(MaxRowLen, {1, 2})
LQRGains == SeqsUpTo(MaxRows, LQRRows)
LQRTargets == SeqsUpTo(2, {0, 1})
LQRStates == SeqsUpTo(MaxStateLen, {0, 1})

\* the inner loop of Compute from index j on (j counts from 1), after acc:
\* u[i] -= K[i][j] * (x[j] - target), guarded by j < len(l.K[i])
RECURSIVE RowLoop(_, _, _, _, _)
RowLoop(row, target, xs, j, acc) ==
    IF j > Len(xs) THEN acc
    ELSE LET tj == IF j <= Len(target) THEN target[j] ELSE 0
         IN  RowLoop(row, target, xs, j + 1,
                     IF j <= Len(row) THEN acc - row[j] * (xs[j] - tj) ELSE acc)

\* LQR.Compute of internal/control
LQRCompute(l, xs) ==
    [u |-> [r \in 1..Len(l.K) |-> RowLoop(l.K[r], l.Target, xs, 1, 0)],
     panic |-> Nil]

\* LQR.Compute of package controllers: l.K[i][j] is read for every j of x
LQRComputeLegacy(l, xs) ==
    IF \E r \in 1..Len(l.K) : Len(xs) > Len(l.K[r])
    THEN [u |-> Nil, panic |-> RuntimePanic]
    ELSE LQRCompute(l, xs)

\* NewLQR(k, target)
LQRInit ==
    /\ lqr \in [impl : Impls, K : LQRGains, Target : LQRTargets]
    /\ lqrLast = Nil

\* a caller calls Compute(x, t)
LQRComputeCall ==
    \E xs \in LQRStates :
        LET r == IF lqr.impl = "canonical" THEN LQRCompute(lqr, xs)
                 ELSE LQRComputeLegacy(lqr, xs)
        IN  /\ lqrLast' = [x |-> xs, u |-> r.u, panic |-> r.panic]
            /\ lqrLast' # lqrLast
            /\ UNCHANGED lqr
            /\ UNCHANGED outsideLQR

LQRNext == LQRComputeCall

(* --------------------------- adaptiveStep ----------------------------- *)
\* One call of Simulator.adaptiveStep(x, u, t, dt, cfg) on an integrator that
\* is not an AdaptiveIntegrator, with the recursion it starts.

\* the configs Run calls adaptiveStep with: adaptive and valid
AdaptiveConfigs ==
    {c \in Configs : c.Adaptive /\ c.Tolerance > 0 /\ c.Dt = 2 /\ c.Duration = 2
                     /\ ~c.ValidateState}

\* the dt of the call: cfg.Dt, or what the step before proposed
AdaptiveDts == {1, 2, 4, 8}

AdaptiveIdle == [pc |-> "idle"]

AdaptiveStepInit == ast = AdaptiveIdle

\* Run calls s.adaptiveStep(x, u, t, dt, cfg)
AdaptiveStepEnter ==
    /\ ast.pc = "idle"
    /\ \E c \in AdaptiveConfigs, d \in AdaptiveDts :
         ast' = [pc |-> "active", cfg |-> c, dt0 |-> d, adt |-> d, depth |-> 0,
                 x1 |-> <<>>, x2 |-> <<>>, err |-> Fin(0), ret |-> Nil]
    /\ UNCHANGED outsideAdaptiveStep

\* one activation: x1 from one step of dt, x2 from two steps of dt/2 (any
\* states the integrator may produce), err, then the recursive call with
\* dt/2 or the return of x2 and the proposed dt
AdaptiveStepActivation ==
    /\ ast.pc = "active"
    /\ \E x1 \in StateVals, x2 \in StateVals :
         LET err == Norm(Sub(x1, x2)) IN
           IF MustRetry(err, ast.adt, ast.cfg)
           THEN ast' = [ast EXCEPT !.adt = @ \div 2, !.depth = @ + 1,
                                   !.x1 = x1, !.x2 = x2, !.err = err]
           ELSE ast' = [ast EXCEPT !.pc = "returned",
                                   !.x1 = x1, !.x2 = x2, !.err = err,
                                   !.ret = [newX |-> x2,
                                            dt |-> ProposedDt(err, ast.adt, ast.cfg),
                                            err |-> Nil]]
    /\ UNCHANGED outsideAdaptiveStep

\* Run goes on with what adaptiveStep returned
AdaptiveStepDone ==
    /\ ast.pc = "returned"
    /\ ast' = AdaptiveIdle
    /\ UNCHANGED outsideAdaptiveStep

AdaptiveStepNext ==
    \/ AdaptiveStepEnter
    \/ AdaptiveStepActivation
    \/ AdaptiveStepDone

\* no halving of the recursion loses a fraction
AdaptiveHalvingExact ==
    (ast.pc = "active" /\ ast.adt > ast.cfg.MinDt) => ast.adt % 2 = 0

(* ------------------------- CPU force kernels -------------------------- *)
\* CPUBackend.nbodyParallel ("backend"), whose workers accumulate into
\* private arrays that the driver sums, and NBody.computeForcesCPU ("nbody"),
\* whose workers write their own indexes of the output.  Bodies and workers
\* count from 0.  The acceleration of body i is Force(i).

MaxBodies == 3
MaxWorkers == 3

KernelKinds == {"backend", "nbody"}
Driver == -1

Force(b) == b + 1

\* the chunk size rounded down
ChunkSize_Floor(n, workers) == n \div workers

\* chunkSize := (n + workers - 1) / workers
ChunkSize(n, workers) == (n + workers - 1) \div workers

KernelIdle == [pc |-> "idle"]

KernelInit ==
    /\ ker = KernelIdle
    /\ kw = <<>>
    /\ localAx = <<>>
    /\ wlog = {}

\* the kernel is called: the output and the private arrays are allocated,
\* chunkSize computed; computeForcesCPU adds all its workers to the
\* WaitGroup at once
ForcesCall ==
    /\ ker.pc = "idle"
    /\ \E kind \in KernelKinds, n \in 0..MaxBodies, workers \in 1..MaxWorkers :
         /\ ker' = [pc |-> "spawn", kind |-> kind, n |-> n, workers |-> workers,
                    chunkSize |-> ChunkSize(n, workers), w |-> 0,
                    wg |-> IF kind = "nbody" THEN workers ELSE 0,
                    ax |-> [b \in 0..(n - 1) |-> 0]]
         /\ kw' = [w \in 0..(workers - 1) |->
                     [pc |-> "unborn", start |-> 0, end |-> 0, i |-> 0]]
         /\ localAx' = IF kind = "backend"
                       THEN [w \in 0..(workers - 1) |-> [b \in 0..(n - 1) |-> 0]]
                       ELSE <<>>
    /\ wlog' = {}
    /\ UNCHANGED outsideKernel

\* one pass of the spawning loop: wg.Add(1) in nbodyParallel, start and end
\* (end cut at n), the go statement
SpawnWorker ==
    /\ ker.pc = "spawn" /\ ker.w < ker.workers
    /\ LET start == ker.w * ker.chunkSize
       IN  kw' = [kw EXCEPT ![ker.w] = [pc |-> "loop", start |-> start,
                                        end |-> IF start + ker.chunkSize > ker.n
                                                THEN ker.n ELSE start + ker.chunkSize,
                                        i |-> start]]
    /\ ker' = [ker EXCEPT !.w = @ + 1,
                          !.wg = IF ker.kind = "backend" THEN @ + 1 ELSE @]
    /\ UNCHANGED <<localAx, wlog>>
    /\ UNCHANGED outsideKernel

\* worker w computes body i: the inner loop over j, then lax[i] in
\* nbodyParallel, ax[i] in computeForcesCPU
WorkerBody(w) ==
    /\ kw[w].pc = "loop" /\ kw[w].i < kw[w].end
    /\ IF ker.kind = "backend"
       THEN /\ localAx' = [localAx EXCEPT ![w][kw[w].i] = @ + Force(kw[w].i)]
            /\ wlog' = wlog \cup {[arr |-> "localAx", owner |-> w, idx |-> kw[w].i, by |-> w]}
            /\ UNCHANGED ker
       ELSE /\ ker' = [ker EXCEPT !.ax[kw[w].i] = Force(kw[w].i)]
            /\ wlog' = wlog \cup {[arr |-> "ax", owner |-> Driver, idx |-> kw[w].i, by |-> w]}
            /\ UNCHANGED localAx
    /\ kw' = [kw EXCEPT ![w].i = @ + 1]
    /\ UNCHANGED outsideKernel

\* worker w leaves its loop: the deferred wg.Done()
WorkerExit(w) ==
    /\ kw[w].pc = "loop" /\ kw[w].i >= kw[w].end
    /\ kw' = [kw EXCEPT ![w].pc = "done"]
    /\ ker' = [ker EXCEPT !.wg = @ - 1]
    /\ UNCHANGED <<localAx, wlog>>
    /\ UNCHANGED outsideKernel

RECURSIVE SumLocal(_, _, _)
SumLocal(arrs, b, w) ==
    IF w < 0 THEN 0 ELSE SumLocal(arrs, b, w - 1) + arrs[w][b]

\* wg.Wait() returns; nbodyParallel adds every localAx[w][i] to ax[i];
\* the kernel returns
WaitAndReturn ==
    /\ ker.pc = "spawn" /\ ker.w = ker.workers
    /\ ker.wg = 0
    /\ IF ker.kind = "backend"
       THEN /\ ker' = [ker EXCEPT
                         !.pc = "returned",
                         !.ax = [b \in 0..(ker.n - 1) |->
                                   ker.ax[b] + SumLocal(localAx, b, ker.workers - 1)]]
            /\ wlog' = wlog \cup {[arr |-> "ax", owner |-> Driver, idx |-> b, by |-> Driver] :
                                    b \in 0..(ker.n - 1)}
       ELSE /\ ker' = [ker EXCEPT !.pc = "returned"]
            /\ UNCHANGED wlog
    /\ UNCHANGED <<kw, localAx>>
    /\ UNCHANGED outsideKernel

\* the caller goes on with ax
KernelForget ==
    /\ ker.pc = "returned"
    /\ ker' = KernelIdle
    /\ kw' = <<>> /\ localAx' = <<>> /\ wlog' = {}
    /\ UNCHANGED outsideKernel

KernelNext ==
    \/ ForcesCall
    \/ SpawnWorker
    \/ \E w \in DOMAIN kw : WorkerBody(w)
    \/ \E w \in DOMAIN kw : WorkerExit(w)
    \/ WaitAndReturn
    \/ KernelForget

(* ---------------------------- ParallelFor ----------------------------- *)

MaxN == 5
MaxMinChunk == 2
NumWorkers == 4

DivideByZero == [kind |-> "runtime error: integer divide by zero"]

ParallelForIdle == [pc |-> "idle"]

ParallelForInit ==
    /\ pf = ParallelForIdle
    /\ pfCalls = <<>>

\* workers: numWorkers, n/minChunk if that is less, at least 1
WorkerCount(n, minChunk) ==
    LET byChunk == IF n \div minChunk < NumWorkers THEN n \div minChunk ELSE NumWorkers
    IN  IF byChunk < 1 THEN 1 ELSE byChunk

\* ParallelFor(n, minChunk, fn) up to the spawning loop: the serial call
\* fn(0, n), or the panic of n/minChunk, or workers, chunkSize and
\* wg.Add(workers)
ParallelFor(n, minChunk) ==
    /\ pf.pc = "idle"
    /\ IF n <= minChunk \/ NumWorkers <= 1
       THEN /\ pf' = [pc |-> "serial", n |-> n, minChunk |-> minChunk,
                      workers |-> 0, chunkSize |-> 0, w |-> 0, wg |-> 0, panic |-> Nil]
            /\ pfCalls' = <<[start |-> 0, end |-> n, returned |-> FALSE]>>
       ELSE IF minChunk = 0
       THEN /\ pf' = [pc |-> "panicked", n |-> n, minChunk |-> minChunk,
                      workers |-> NumWorkers, chunkSize |-> 0, w |-> 0, wg |-> 0,
                      panic |-> DivideByZero]
            /\ pfCalls' = <<>>
       ELSE /\ pf' = [pc |-> "spawn", n |-> n, minChunk |-> minChunk,
                      workers |-> WorkerCount(n, minChunk),
                      chunkSize |-> ChunkSize(n, WorkerCount(n, minChunk)),
                      w |-> 0, wg |-> WorkerCount(n, minChunk), panic |-> Nil]
            /\ pfCalls' = <<>>
    /\ UNCHANGED outsideParallelFor

ParallelForCall ==
    /\ pf.pc = "idle"
    /\ \E n \in 0..MaxN, minChunk \in 0..MaxMinChunk : ParallelFor(n, minChunk)

\* one pass of the spawning loop: start, end (cut at n), and the goroutine,
\* which calls fn(start, end)
ParallelForSpawn ==
    /\ pf.pc = "spawn" /\ pf.w < pf.workers
    /\ LET start == pf.w * pf.chunkSize IN
         pfCalls' = Append(pfCalls,
                           [start |-> start,
                            end |-> IF start + pf.chunkSize > pf.n THEN pf.n
                                    ELSE start + pf.chunkSize,
                            returned |-> FALSE])
    /\ pf' = [pf EXCEPT !.w = @ + 1]
    /\ UNCHANGED outsideParallelFor

\* the fn of invocation k returns; in a goroutine, the deferred wg.Done()
FnReturns(k) ==
    /\ ~pfCalls[k].returned
    /\ pfCalls' = [pfCalls EXCEPT ![k].returned = TRUE]
    /\ pf' = IF pf.pc = "serial" THEN [pf EXCEPT !.pc = "returned"]
             ELSE [pf EXCEPT !.wg = @ - 1]
    /\ UNCHANGED outsideParallelFor

\* wg.Wait() returns, and ParallelFor with it
ParallelForWait ==
    /\ pf.pc = "spawn" /\ pf.w = pf.workers
    /\ pf.wg = 0
    /\ pf' = [pf EXCEPT !.pc = "returned"]
    /\ UNCHANGED pfCalls
    /\ UNCHANGED outsideParallelFor

\* the caller goes on, or the panic has been handled
ParallelForForget ==
    /\ pf.pc \in {"returned", "panicked"}
    /\ pf' = ParallelForIdle
    /\ pfCalls' = <<>>
    /\ UNCHANGED outsideParallelFor

ParallelForNext ==
    \/ ParallelForCall
    \/ ParallelForSpawn
    \/ \E k \in DOMAIN pfCalls : FnReturns(k)
    \/ ParallelForWait
    \/ ParallelForForget

(* ------------------------- ManualController --------------------------- *)
\* Run appends the Control that Compute returned to Result.Controls as it
\* is: a slice, sharing its backing array with whoever else holds it.

MaxManualSteps == 2

ControllerKinds == {"manual", "none"}

\* the vectors SetControl is called with
SetControlArgs == {<<1, 1, 1>>, <<0, 0, 0>>, <<1>>}

\* the address of ManualController.U
AddrU == 0

ManualIdle == [pc |-> "idle"]

\* NewManual() or NewNone(3), and a Simulator over it
ManualInit ==
    /\ ctl \in [kind : ControllerKinds, copying : {Nil}]
    /\ heap = [a \in {AddrU} |-> <<0, 0, 0>>]
    /\ mrun = ManualIdle

\* Run is called; the first state is pushed
ManualRunCall ==
    /\ mrun.pc = "idle"
    /\ \E n \in 1..MaxManualSteps :
         mrun' = [pc |-> "compute", i |-> 0, steps |-> n, x |-> 0, u |-> AddrU,
                  Controls |-> <<>>, applied |-> <<>>]
    /\ UNCHANGED <<ctl, heap>>
    /\ UNCHANGED outsideManual

\* u := s.controller.Compute(x, t): ManualController returns c.U itself,
\* None a new slice of zeros
ManualCompute ==
    /\ mrun.pc = "compute"
    /\ IF ctl.kind = "manual"
       THEN /\ mrun' = [mrun EXCEPT !.pc = "step", !.u = AddrU]
            /\ UNCHANGED heap
       ELSE /\ mrun' = [mrun EXCEPT !.pc = "step", !.u = mrun.i + 1]
            /\ heap' = [a \in DOMAIN heap \cup {mrun.i + 1} |->
                          IF a = mrun.i + 1 THEN <<0, 0, 0>> ELSE heap[a]]
    /\ UNCHANGED ctl
    /\ UNCHANGED outsideManual

\* the rest of the step: the integrator takes x forward under u as it reads
\* it now, then the appends to States, Controls (u, not a copy) and Times
ManualStep ==
    /\ mrun.pc = "step"
    /\ mrun' = [mrun EXCEPT
                  !.x = (@ + heap[mrun.u][3]) % 2,
                  !.Controls = Append(@, mrun.u),
                  !.applied = Append(@, heap[mrun.u]),
                  !.i = @ + 1,
                  !.pc = IF mrun.i + 1 < mrun.steps THEN "compute" ELSE "returned"]
    /\ UNCHANGED <<ctl, heap>>
    /\ UNCHANGED outsideManual

\* the caller drops the Result
ManualForget ==
    /\ mrun.pc = "returned"
    /\ mrun' = ManualIdle
    /\ heap' = [a \in {AddrU} |-> heap[AddrU]]
    /\ UNCHANGED ctl
    /\ UNCHANGED outsideManual

\* another goroutine calls SetControl(u): the length test
SetControlCall ==
    /\ ctl.kind = "manual" /\ ctl.copying = Nil
    /\ \E src \in SetControlArgs :
         ctl' = IF Len(src) # 3 THEN ctl
                ELSE [ctl EXCEPT !.copying = [src |-> src, j |-> 1]]
    /\ UNCHANGED <<heap, mrun>>
    /\ UNCHANGED outsideManual

\* copy(c.U, u), one element at a time: nothing orders it with Run's reads
SetControlCopy ==
    /\ ctl.copying # Nil
    /\ heap' = [heap EXCEPT ![AddrU][ctl.copying.j] = ctl.copying.src[ctl.copying.j]]
    /\ ctl' = IF ctl.copying.j = 3 THEN [ctl EXCEPT !.copying = Nil]
              ELSE [ctl EXCEPT !.copying.j = @ + 1]
    /\ UNCHANGED mrun
    /\ UNCHANGED outsideManual

ManualNext ==
    \/ ManualRunCall
    \/ ManualCompute
    \/ ManualStep
    \/ ManualForget
    \/ SetControlCall
    \/ SetControlCopy

(* --------------------------- specifications --------------------------- *)
\* Each specification runs one component.  The Simulator is a part of every
\* one of them; the components a specification does not run do not exist in it.

\* a canonical Simulator, not running
SimulatorAtRest == Init /\ impl = "canonical" /\ integrator = "plain"

\* no Ensemble has been built
NoEnsemble ==
    /\ eCall = Nil /\ ePc = "none" /\ eSpawned = 0 /\ wg = 0 /\ eCtxDone = FALSE
    /\ trial = <<>> /\ results = <<>> /\ errs = <<>> /\ eRet = Nil
    /\ scratch = <<>> /\ baseMetric = Nil

\* no PID has been built
NoPID ==
    /\ pid = Nil /\ pidOut = <<>> /\ pidLast = Nil /\ pidCalls = 0
    /\ pidRun = Nil /\ pidRuns = <<>>

\* no metric has been built outside the Simulator
NoMetric == met = Nil /\ metLast = Nil /\ metBeforeReset = Nil /\ metObs = 0

\* no NBody system
NoGPU == gpuCfg = Nil /\ nbPositions = Nil /\ caller = <<>>

\* no Verlet and no Leapfrog
NoSym == sym = Nil /\ symLast = Nil

\* no Configurable
NoTun == tun = Nil /\ tunLast = Nil /\ bif = Nil

\* no Store
NoStore == fs = Nil /\ clock = 0 /\ saves = <<>> /\ listed = Nil /\ loaded = Nil

\* no LQR
NoLQR == lqr = Nil /\ lqrLast = Nil

\* no call of adaptiveStep by itself
NoAdaptiveStep == ast = Nil

\* no CPU force kernel
NoKernel == ker = Nil /\ kw = <<>> /\ localAx = <<>> /\ wlog = {}

\* no call of ParallelFor
NoParallelFor == pf = Nil /\ pfCalls = <<>>

\* no run under a ManualController
NoManual == ctl = Nil /\ heap = <<>> /\ mrun = Nil

\* none of the components that are called directly
NoLibrary ==
    /\ NoSym /\ NoTun /\ NoStore /\ NoLQR /\ NoAdaptiveStep /\ NoKernel
    /\ NoParallelFor /\ NoManual

SimulatorSpecInit == Init /\ NoEnsemble /\ NoPID /\ NoMetric /\ NoGPU /\ NoLibrary

\* Simulator.Run, called again and again on one Simulator
Spec == SimulatorSpecInit /\ [][Next]_vars

\* the base Simulator of the Ensemble is a canonical one
EnsembleSpecInit == SimulatorAtRest /\ EnsembleInit /\ NoPID /\ NoMetric /\ NoGPU /\ NoLibrary

\* one Ensemble.Run
SpecEnsemble == EnsembleSpecInit /\ [][EnsembleNext]_vars

PIDSpecInit == SimulatorAtRest /\ NoEnsemble /\ PIDInit /\ NoMetric /\ NoGPU /\ NoLibrary

\* calls on one PID, directly and through the runs of its Simulator
SpecPID == PIDSpecInit /\ [][PIDNext]_vars

MetricSpecInit == SimulatorAtRest /\ NoEnsemble /\ NoPID /\ MetricInit /\ NoGPU /\ NoLibrary

\* calls on one metric
SpecMetric == MetricSpecInit /\ [][MetricNext]_vars

GPUSpecInit == SimulatorAtRest /\ NoEnsemble /\ NoPID /\ NoMetric /\ GPUInit /\ NoLibrary

\* the Derive calls of the trials of one Ensemble on their common NBody
SpecGPU == GPUSpecInit /\ [][GPUNext]_vars

\* no run of any kind
NoRuns == SimulatorAtRest /\ NoEnsemble /\ NoPID /\ NoMetric /\ NoGPU

SymSpecInit == NoRuns /\ SymInit /\ NoTun /\ NoStore /\ NoLQR /\ NoAdaptiveStep /\ NoKernel
    /\ NoParallelFor /\ NoManual

\* Step calls on one Verlet and one Leapfrog
SpecSym == SymSpecInit /\ [][SymNext]_vars

TunSpecInit == NoRuns /\ NoSym /\ TunInit /\ NoStore /\ NoLQR /\ NoAdaptiveStep /\ NoKernel
    /\ NoParallelFor /\ NoManual

\* SetParam calls on one Configurable
SpecTun == TunSpecInit /\ [][TunNext]_vars

BifSpecInit == NoRuns /\ NoSym /\ BifInit /\ NoStore /\ NoLQR /\ NoAdaptiveStep /\ NoKernel
    /\ NoParallelFor /\ NoManual

\* BifurcationDiagram, called again and again on one system
SpecBif == BifSpecInit /\ [][BifNext]_vars

StoreSpecInit == NoRuns /\ NoSym /\ NoTun /\ StoreInit /\ NoLQR /\ NoAdaptiveStep /\ NoKernel
    /\ NoParallelFor /\ NoManual

\* Save, List and Load calls on one Store, while time passes
SpecStore == StoreSpecInit /\ [][StoreNext]_vars

LQRSpecInit == NoRuns /\ NoSym /\ NoTun /\ NoStore /\ LQRInit /\ NoAdaptiveStep /\ NoKernel
    /\ NoParallelFor /\ NoManual

\* Compute calls on one LQR
SpecLQR == LQRSpecInit /\ [][LQRNext]_vars

AdaptiveStepSpecInit == NoRuns /\ NoSym /\ NoTun /\ NoStore /\ NoLQR /\ AdaptiveStepInit /\ NoKernel
    /\ NoParallelFor /\ NoManual

\* calls of adaptiveStep; an activation that has begun runs on, the
\* recursion being a chain of synchronous calls in the goroutine of Run
SpecAdaptiveStep ==
    AdaptiveStepSpecInit /\ [][AdaptiveStepNext]_vars /\ WF_vars(AdaptiveStepActivation)

KernelSpecInit ==
    NoRuns /\ NoSym /\ NoTun /\ NoStore /\ NoLQR /\ NoAdaptiveStep /\ KernelInit
    /\ NoParallelFor /\ NoManual

\* calls of the two CPU force kernels, one after the other
SpecKernel == KernelSpecInit /\ [][KernelNext]_vars

ParallelForSpecInit ==
    NoRuns /\ NoSym /\ NoTun /\ NoStore /\ NoLQR /\ NoAdaptiveStep /\ NoKernel
    /\ ParallelForInit /\ NoManual

\* calls of ParallelFor, one after the other
SpecParallelFor == ParallelForSpecInit /\ [][ParallelForNext]_vars

ManualSpecInit ==
    NoRuns /\ NoSym /\ NoTun /\ NoStore /\ NoLQR /\ NoAdaptiveStep /\ NoKernel
    /\ NoParallelFor /\ ManualInit

\* runs of a Simulator under a ManualController or a None, while another
\* goroutine calls SetControl
SpecManual == ManualSpecInit /\ [][ManualNext]_vars

(* ------------------------------ claims -------------------------------- *)

Last(sq) == sq[Len(sq)]

\* the positions of Run from the push of the first state to the return
Assembling == {"loop", "compute", "observe", "onstep", "integrate",
               "adaptiveStep", "post", "harvest"}

ReturnedResult == pc = "returned" /\ ret.result # Nil

LengthsAgree(r) ==
    /\ Len(r.States) = Len(r.Times)
    /\ Len(r.States) = Len(r.Controls) + 1
    /\ impl = "canonical" => Len(r.Controls) = r.StepsTaken

\* C1: every Result that Run returns, and the Result under assembly at every
\* step boundary, has as many states as times, one more than controls, and
\* (where the Result has the field) StepsTaken controls.
C1_ResultLengths ==
    /\ ReturnedResult => LengthsAgree(ret.result)
    /\ pc \in Assembling => LengthsAgree(res)

\* a cancelled canonical run returned the Result of its first step
C1_Witness ==
    /\ ReturnedResult /\ ret.err = CtxErr
    /\ ret.result.StepsTaken = 1 /\ Len(ret.result.States) = 2

\* the call that may directly follow call a in one run
FollowsInOrder(a, b) ==
    \/ a.op = "Reset" /\ a.idx < NumMetrics /\ b = Call("Reset", a.idx + 1)
    \/ a.op = "Reset" /\ a.idx = NumMetrics /\ b = Call("Compute", 0)
    \/ a.op = "Compute" /\ b = Call("Observe", 1)
    \/ a.op = "Observe" /\ a.idx < NumMetrics /\ b = Call("Observe", a.idx + 1)
    \/ a.op = "Observe" /\ a.idx = NumMetrics /\ b = Call("OnStep", 1)
    \/ a.op = "OnStep" /\ a.idx < NumObservers /\ b = Call("OnStep", a.idx + 1)
    \/ a.op = "OnStep" /\ a.idx = NumObservers /\ b = Call("Step", 0)
    \/ a.op = "Step" /\ b \in {Call("Step", 0), Call("Compute", 0)}

\* C2: within one run the metrics are reset, in order, before anything else
\* is called, and every step calls Compute, then Observe on every metric, then
\* OnStep on every observer, then the integrator (again when adaptiveStep
\* retries), and only then the next step's Compute.
C2_CallOrder ==
    /\ Len(calls) >= 1 => calls[1] = Call("Reset", 1)
    /\ \A p \in 1..(Len(calls) - 1) : FollowsInOrder(calls[p], calls[p + 1])

\* a second step began after the first step's integrator call
C2_Witness ==
    \E p \in 1..(Len(calls) - 1) :
        /\ calls[p].op = "Step" /\ calls[p + 1].op = "Compute"
        /\ Len(calls) >= p + 2 + NumMetrics + NumObservers

\* Run returned because it saw the cancelled context at the top of step i
CancelledReturn == pc = "returned" /\ ret.err = CtxErr

\* C3: a run that sees the cancellation at the top of step k returns a non-nil
\* Result with the k+1 states and times and the k controls recorded so far,
\* and StepsTaken = k.
C3_CancelKeepsPrefix ==
    CancelledReturn =>
        /\ ret.result # Nil
        /\ Len(ret.result.States) = i + 1
        /\ Len(ret.result.Times) = i + 1
        /\ Len(ret.result.Controls) = i
        /\ impl = "canonical" => ret.result.StepsTaken = i

ErrContextCanceled == [kind |-> "dynamo: simulation canceled by context"]

\* C4: after a cancelled run the Result's Errors holds exactly one
\* ContextCanceled entry.
C4_CancelRecordedInErrors ==
    CancelledReturn =>
        /\ ret.result # Nil
        /\ Cardinality({k \in 1..Len(ret.result.Errors) :
                           ret.result.Errors[k] = ErrContextCanceled}) = 1

\* the configurations the contract rejects
InvalidConfig(c) == c.Dt <= 0 \/ c.Duration <= 0 \/ (c.Adaptive /\ c.Tolerance <= 0)

\* C5: called with dt <= 0, duration <= 0, or adaptive with tolerance <= 0,
\* Run returns an error and no Result without having called any metric, the
\* controller, any observer or the integrator.
C5_InvalidConfigRejected ==
    (pc # "idle" /\ InvalidConfig(cfg)) =>
        /\ pc = "returned"
        /\ ret.result = Nil /\ ret.err # Nil
        /\ calls = <<>>

\* an adaptive run with tolerance 0 was rejected on a Simulator whose metric
\* still holds the samples of an earlier run
C5_Witness ==
    /\ pc = "returned" /\ cfg.Adaptive /\ cfg.Tolerance <= 0
    /\ cfg.Dt > 0 /\ cfg.Duration > 0
    /\ metrics[1].samples > 0

\* no component is NaN, +Inf or -Inf
AllFinite(s) == \A k \in 1..Len(s) : s[k] \notin {NaN, PosInf, NegInf}

\* the run broke out of the loop on a non-finite newX
StoppedOnInvalidState ==
    /\ impl = "canonical" /\ cfg.ValidateState
    /\ pc \in {"harvest", "returned"} /\ ~AllFinite(newX)

\* C6: with validate_state on, a non-finite state from the integrator at step
\* k is never recorded; the run stops there with the single error (k, t), t the
\* time of the last recorded state, StepsTaken = k, and returns the Result with
\* no top-level error.
C6_InvalidStateStopsRun ==
    /\ (impl = "canonical" /\ cfg.ValidateState) =>
           \A k \in 2..Len(res.States) : AllFinite(res.States[k])
    /\ StoppedOnInvalidState =>
           /\ res.Errors = <<SimError(res.StepsTaken, Last(res.Times))>>
           /\ res.StepsTaken = i
           /\ Len(res.States) = i + 1
           /\ Last(calls) = Call("Step", 0)
           /\ pc = "returned" => (ret.result = res /\ ret.err = Nil)

\* the second step's integrator call returned +Inf and the run returned
C6_Witness ==
    /\ StoppedOnInvalidState /\ pc = "returned"
    /\ newX = <<PosInf>> /\ res.StepsTaken = 1

\* Run returned normally: not cancelled, not stopped on an invalid state
NormalReturn ==
    /\ pc = "returned" /\ ret.err = Nil
    /\ res.Errors = <<>>

C8_StepSizeClamped ==
    (pc = "integrate" /\ cfg.Adaptive /\ i >= 1) =>
        (cfg.MinDt <= dt /\ dt <= cfg.MaxDt)

\* C9: in an adaptive run the time advances by the step size the new state
\* was computed with.
C9_TimeAdvancesByUsedDt ==
    (impl = "canonical" /\ cfg.Adaptive /\ pc = "loop" /\ i >= 1) =>
        res.Times[i + 1] - res.Times[i] = usedDt

ErrStepTooSmall == [kind |-> "dynamo: adaptive timestep below minimum"]

\* C10: when adaptive stepping shrinks the step size below cfg.min_dt, Run
\* aborts with a top-level StepTooSmall error instead of integrating with it.
C10_StepTooSmallAborts ==
    /\ (cfg.Adaptive /\ cfg.Dt >= cfg.MinDt /\ pc = "post") => usedDt >= cfg.MinDt
    /\ (cfg.Adaptive /\ cfg.Dt >= cfg.MinDt /\ pc = "returned" /\ dt < cfg.MinDt) =>
           (ret.result = Nil /\ ret.err = ErrStepTooSmall)

\* every trial's sim.Run has returned
AllTrialsDone == \A idx \in Trials : trial[idx].pc = "done"

\* the trials whose sim.Run returned an error
FailedTrials == {idx \in Trials : trial[idx].ret.err # Nil}

\* C11: trial i runs with seed seedStart + i; when Ensemble.Run has returned,
\* every trial has finished; if no trial failed it returned NumRuns results,
\* results[i] being what trial i's Run returned, and otherwise no results and
\* the error of the failed trial with the lowest index.
C11_EnsembleJoinsAllTrials ==
    /\ \A idx \in Trials :
         trial[idx].pc \notin {"unborn", "start"} =>
             trial[idx].cfg.Seed = eCall.seedStart + idx
    /\ ePc = "returned" =>
         /\ AllTrialsDone
         /\ IF FailedTrials = {}
            THEN /\ eRet.err = Nil
                 /\ DOMAIN eRet.results = Trials
                 /\ \A idx \in Trials :
                      /\ eRet.results[idx] = trial[idx].ret.result
                      /\ eRet.results[idx].trial = idx
            ELSE /\ eRet.results = Nil
                 /\ \E low \in FailedTrials :
                      /\ \A idx \in FailedTrials : low <= idx
                      /\ eRet.err = trial[low].ret.err
                      /\ eRet.err.trial = low

\* Ensemble.Run has returned the error of trial 1, trial 0 having succeeded
C11_Witness ==
    /\ ePc = "returned"
    /\ FailedTrials = Trials \ {0}
    /\ eRet.err.trial = 1
    /\ trial[0].ret.result.States = <<<<Fin(1)>>, <<Fin(4)>>, <<Fin(3)>>>>

\* the trial's sim.Run is between its first and its last statement
Running(idx) == trial[idx].pc \in {"loop", "stage", "combine"}

\* C12: two trials that run at the same time never hold the same integrator
\* instance nor the same controller instance, so that a stage one trial wrote
\* into the integrator's scratch is never pending while another trial's is.
C12_FreshIntegratorPerTrial ==
    \A a \in Trials, b \in Trials :
        (a # b /\ Running(a) /\ Running(b)) =>
            /\ trial[a].sim.integrator # trial[b].sim.integrator
            /\ trial[a].sim.controller # trial[b].sim.controller
            /\ ~(trial[a].pc = "combine" /\ trial[b].pc = "combine")

RECURSIVE SumEffort(_)
\* the sum of |u| over a sequence of controls
SumEffort(controls) ==
    IF controls = <<>> THEN 0
    ELSE AbsSum(controls[1]) + SumEffort(Tail(controls))

\* two fractions <<numerator, denominator>> are the same number
SameNumber(p, q) == p[1] * q[2] = q[1] * p[2]

\* C13: two trials that run at the same time never hold the same metric
\* instance, and the metric value in a trial's Result is the mean control
\* effort of that trial's own steps (what its own Reset and Observe calls give).
C13_OwnMetricsPerTrial ==
    /\ \A a \in Trials, b \in Trials :
         (a # b /\ Running(a) /\ Running(b)) =>
             trial[a].sim.metrics # trial[b].sim.metrics
    /\ \A idx \in Trials :
         (trial[idx].pc = "done" /\ trial[idx].ret.err = Nil) =>
             LET r == trial[idx].ret.result IN
               SameNumber(r.Metrics[1],
                          Value([sum |-> SumEffort(r.Controls),
                                 samples |-> Len(r.Controls)]))

\* C14: the seed of a trial determines its trajectory: of the results one
\* Ensemble.Run returns, two have the same States exactly if their trials
\* ran with the same seed.
C14_SeedDeterminesTrajectory ==
    (ePc = "returned" /\ eRet.err = Nil) =>
        \A a \in Trials, b \in Trials :
            (trial[a].cfg.Seed = trial[b].cfg.Seed)
                <=> (eRet.results[a].States = eRet.results[b].States)

\* C15: Run resets the PID at its start (first-call flag set, integral zero),
\* and two completed runs of the Simulator from the same x0 and cfg returned
\* the same state and control sequences.
C15_RunResetsPID ==
    /\ (pidRun.pc = "loop" /\ pidRun.i = 0) => (pid.first /\ pid.integral = 0)
    /\ \A a \in 1..Len(pidRuns), b \in 1..Len(pidRuns) :
         pidRuns[a].x0 = pidRuns[b].x0 => pidRuns[a] = pidRuns[b]

\* the last call was a Compute after the first one, at a time not later than
\* the recorded one
GuardedCompute ==
    /\ pidLast.op = "Compute"
    /\ ~pidLast.before.first
    /\ pidLast.t <= pidLast.before.prevT

\* the integral, the previous error and the previous time are as before the call
IntegratorStateKept ==
    /\ pid.integral = pidLast.before.integral
    /\ pid.prevErr = pidLast.before.prevErr
    /\ pid.prevT = pidLast.before.prevT

\* C16 as stated: a Compute after the first call with dt <= 0 returns [Kp*e],
\* e = Target - x[0], and leaves integral, prevErr and prevT unchanged.
C16_GuardReturnsProportional ==
    GuardedCompute =>
        /\ pidOut = <<pid.Kp * (pid.Target - pidLast.x[1])>>
        /\ IntegratorStateKept

\* C16 amended: a Compute after the first call with dt <= 0 leaves integral,
\* prevErr and prevT unchanged; it returns [Kp*e] when the state has at least
\* two components and [0] when it has fewer.
C16_GuardKeepsIntegratorState ==
    GuardedCompute =>
        /\ IntegratorStateKept
        /\ pidOut = (IF Len(pidLast.x) >= 2
                     THEN <<pid.Kp * (pid.Target - pidLast.x[1])>>
                     ELSE <<0>>)

\* a guarded Compute on a two-component state with a non-zero error, the
\* integral and the previous error being non-zero
C16_Witness ==
    /\ GuardedCompute
    /\ Len(pidLast.x) = 2
    /\ pidOut # <<0>>
    /\ pid.integral # 0 /\ pid.prevErr # 0
    /\ pidLast.t = pid.prevT

\* C17: Reset leaves first = TRUE and a zero integral, and the Compute that
\* follows a Reset returns what the first Compute of a PID newly constructed
\* with the same gains and target returns for the same arguments, and leaves
\* the integral at zero.
C17_ResetRestoresFirstCall ==
    /\ pidLast.op = "Reset" => (pid.first /\ pid.integral = 0)
    /\ (pidLast.op = "Compute" /\ pidLast.afterReset) =>
         /\ pidOut = PIDCompute(NewPID(pid), pidLast.x, pidLast.t).u
         /\ pid.integral = 0

\* a Compute that follows the Reset of a PID whose integral and previous
\* error were not zero and that had been called at a later time
C17_Witness ==
    /\ pidLast.op = "Compute" /\ pidLast.afterReset
    /\ Len(pidLast.x) = 2
    /\ pidLast.t < pidLast.before.prevT
    /\ pidOut # <<0>>
    /\ pidCalls = MaxCalls

\* the metric as its constructor returns it, with met's parameters
FreshMetric ==
    CHOOSE n \in NewMetrics :
        /\ n.kind = met.kind
        /\ (n.kind = "energy_drift" => n.hamiltonian = met.hamiltonian)

\* C18: for Energy, EnergyDrift and ControlEffort, after any Observe calls a
\* Reset leaves a Value of 0, the Value of the metric as constructed, and
\* Reset followed by Observe(x0) leaves the Value that Observe(x0) leaves on
\* the metric as constructed.
C18_ResetEqualsFresh ==
    /\ metLast.op = "Reset" =>
         /\ MetricValue(met)[1] = 0
         /\ SameNumber(MetricValue(met), MetricValue(FreshMetric))
    /\ (metLast.op = "Observe" /\ metLast.afterReset) =>
         SameNumber(MetricValue(met),
                    MetricValue(MetricObserve(FreshMetric, metLast.x, metLast.u)))

\* an Observe that follows the Reset of an EnergyDrift whose largest drift
\* was not zero, the energy observed being not zero
C18_Witness ==
    /\ metLast.op = "Observe" /\ metLast.afterReset
    /\ met.kind = "energy_drift"
    /\ metBeforeReset.maxDrift[1] # 0
    /\ met.initialEnergy # 0

\* how often the run made the call c
CountCalls(c) == Cardinality({p \in 1..Len(calls) : calls[p] = c})

InKernel == {idx \in Trials : caller[idx].pc = "kernel"}

\* C20: kernel invocations are mutually exclusive: at no moment are two
\* trials inside the GPU backend's kernel invocation.
C20_KernelsSerialised == Cardinality(InKernel) <= 1


\* C21: Verlet.Step and Leapfrog.Step reject a state of odd length: the call
\* fails (whatever the failure is called) and produces no state vector.
C21_OddLengthRejected ==
    (symLast # Nil /\ Len(symLast.x) % 2 = 1) =>
        /\ symLast.result = Nil
        /\ symLast.panic # Nil

\* RK45.StepAdaptive returns dt * max(minScale, safety * errRatio^-0.25) when
\* errRatio = errMax / tol > 1, a scale below safety = 0.9, and dt times a
\* scale of at least 0.9 otherwise: the step size d was over the tolerance
\* exactly when the returned dNew is below 0.9 * d
OverTolerance(d, dNew) == 10 * dNew < 9 * d

\* Run holds the newX of an RK45 step whose error estimate exceeded the tolerance
OverToleranceStep ==
    /\ pc = "post"
    /\ impl = "canonical" /\ cfg.Adaptive /\ integrator = "rk45"
    /\ OverTolerance(usedDt, dt)

\* C22: the state estimate of an RK45 step with err_max > tol is not accepted:
\* Run records no state for it and keeps its x for the retry.
C22_OverToleranceStepRejected ==
    [][OverToleranceStep => (res'.States = res.States /\ x' = x)]_vars

\* C23: after BifurcationDiagram returns, the swept parameter of the system
\* has the value it had before the call.
C23_ParameterRestored ==
    (bif # Nil /\ bif.pc = "returned") => tun.params = bif.before

\* C24: SetParam with a name that is not a key of GetParams() fails with an
\* unknown-parameter error and leaves every parameter unchanged; with a known
\* name it succeeds and GetParams() then reports the new value.
C24_UnknownParamFails ==
    (tunLast # Nil) =>
        IF tunLast.name \in DOMAIN tunLast.before
        THEN /\ tunLast.err = Nil
             /\ GetParams(tun) = [tunLast.before EXCEPT ![tunLast.name] = tunLast.value]
        ELSE /\ tunLast.err = UnknownParam(tunLast.name)
             /\ GetParams(tun) = tunLast.before

\* C25: after k successful Save calls on one store, List returns k runs, the
\* run IDs the calls returned are distinct, and Load of each ID returns the
\* metadata saved by that call.
C25_OneDirectoryPerRun ==
    /\ listed # Nil => Len(listed.runs) = Len(saves)
    /\ \A j, k \in 1..Len(saves) : j # k => saves[j].id # saves[k].id
    /\ loaded # Nil =>
         (loaded.ret.err = Nil /\ loaded.ret.meta = saves[loaded.call].meta)

\* the sum of K[i][j] * (x[j] - target[j]) over j from 1 to n
RECURSIVE GainSum(_, _, _, _)
GainSum(row, target, xs, n) ==
    IF n = 0 THEN 0
    ELSE GainSum(row, target, xs, n - 1)
         + row[n] * (xs[n] - (IF n <= Len(target) THEN target[n] ELSE 0))

\* C26: LQR.Compute never indexes outside K's rows, x or the target, whatever
\* their lengths; it returns one component per row of K, u_i being minus the
\* sum over j < min(len(K[i]), len(x)) of K[i][j] * (x[j] - target[j]), and the
\* zero vector at x = target.
C26_LQRTruncatedSum ==
    (lqrLast # Nil) =>
        /\ lqrLast.panic = Nil
        /\ Len(lqrLast.u) = Len(lqr.K)
        /\ \A r \in 1..Len(lqr.K) :
             lqrLast.u[r] = 0 - GainSum(lqr.K[r], lqr.Target, lqrLast.x,
                                        Min(Len(lqr.K[r]), Len(lqrLast.x)))
        /\ lqrLast.x = lqr.Target => \A r \in 1..Len(lqr.K) : lqrLast.u[r] = 0

\* float comparison err <= b; false on NaN
FLe(e, b) == \/ (e.cls = "fin" /\ e.val <= b)
             \/ (e.cls = "inf" /\ e.val = -1)

\* adaptiveStep has returned
FallbackReturned == ast.pc = "returned"

\* what holds of every call whatever the acceptance test is: a recursive
\* call is made only on err > tol and dt > min_dt and halves dt; a call that
\* has begun returns; it returns the x2 of the accepted activation, and a dt
\* other than the accepted one only when err < tol/10 and dt < max_dt, the
\* double capped at max_dt
FallbackRetriesAndReturns ==
    /\ [][(ast.pc = "active" /\ ast'.pc = "active") =>
             /\ FGt(ast'.err, ast.cfg.Tolerance) /\ ast.adt > ast.cfg.MinDt
             /\ 2 * ast'.adt = ast.adt]_vars
    /\ (ast.pc = "active") ~> FallbackReturned
    /\ [](FallbackReturned =>
             /\ ast.ret.newX = ast.x2 /\ ast.ret.err = Nil
             /\ ast.ret.dt # ast.adt =>
                    /\ FLtTenth(ast.err, ast.cfg.Tolerance) /\ ast.adt < ast.cfg.MaxDt
                    /\ ast.ret.dt = Min(2 * ast.adt, ast.cfg.MaxDt)
             /\ (FLtTenth(ast.err, ast.cfg.Tolerance) /\ ast.adt < ast.cfg.MaxDt) =>
                    ast.ret.dt = Min(2 * ast.adt, ast.cfg.MaxDt))

\* C27: the step-doubling fallback halves dt and retries while err > tol and
\* dt > min_dt; the recursion terminates; on return the accepted step
\* satisfies err <= tol or dt <= min_dt, the state returned is its x2, and
\* the next dt is doubled (capped at max_dt) only when err < tol/10 and
\* dt < max_dt.
C27_FallbackAcceptsWithinTolerance ==
    /\ FallbackRetriesAndReturns
    /\ [](FallbackReturned =>
             (FLe(ast.err, ast.cfg.Tolerance) \/ ast.adt <= ast.cfg.MinDt))

\* C27, amended: as above, but the accepted step satisfies only the negation
\* of the retry test, not (err > tol and dt > min_dt): an err that is NaN
\* is accepted at any dt.
C27_FallbackTerminates ==
    /\ FallbackRetriesAndReturns
    /\ [](FallbackReturned =>
             ~(FGt(ast.err, ast.cfg.Tolerance) /\ ast.adt > ast.cfg.MinDt))

\* a call that began with dt = 8 returned after two halvings with an err
\* within the tolerance, and proposes the doubled dt
C27_Witness ==
    /\ FallbackReturned
    /\ ast.dt0 = 8 /\ ast.depth = 2 /\ ast.adt = 2
    /\ ast.err = Fin(0) /\ ast.ret.dt = 4

\* the workers that have computed body b
WorkersOf(b) == {e.by : e \in {f \in wlog : f.idx = b /\ f.by # Driver}}

\* the driver is past wg.Wait()
Joined == ker.pc = "returned"

\* C28: in the CPU parallel force kernels no memory location is written by
\* two workers, each worker writing only its private accumulator or its own
\* index range of the output; the driver sums and returns the output only
\* after all workers have joined, and then every body in [0, n) has been
\* processed by exactly one worker; for every n and worker count.
C28_WorkersPartitionBodies ==
    (ker # Nil /\ ker.pc # "idle") =>
        /\ \A e, f \in wlog :
             (e.arr = f.arr /\ e.owner = f.owner /\ e.idx = f.idx) => e.by = f.by
        /\ \A e \in wlog :
             e.by # Driver =>
                 /\ kw[e.by].start <= e.idx /\ e.idx < kw[e.by].end
                 /\ e.idx < ker.n
                 /\ (e.arr = "localAx" /\ e.owner = e.by) \/ (e.arr = "ax" /\ ker.kind = "nbody")
        /\ \A b \in 0..(ker.n - 1) : Cardinality(WorkersOf(b)) <= 1
        /\ (Joined \/ \E e \in wlog : e.by = Driver) =>
              /\ \A w \in DOMAIN kw : kw[w].pc = "done"
              /\ \A b \in 0..(ker.n - 1) : Cardinality(WorkersOf(b)) = 1
        /\ Joined => ker.ax = [b \in 0..(ker.n - 1) |-> Force(b)]

\* nbodyParallel returned the accelerations of two bodies computed by three
\* workers, the last of which had no body
C28_Witness ==
    /\ ker # Nil /\ Joined
    /\ ker.kind = "backend" /\ ker.n = 2 /\ ker.workers = 3
    /\ kw[2].start >= kw[2].end
    /\ ker.ax = [b \in 0..1 |-> b + 1]

\* the invocations of fn whose range holds index b
CallsOn(b) == {k \in DOMAIN pfCalls : pfCalls[k].start <= b /\ b < pfCalls[k].end}

\* C29: ParallelFor invokes fn on ranges [start, end) with
\* 0 <= start <= end <= n, pairwise disjoint and together covering [0, n)
\* exactly once, and returns only after every invocation of fn has returned.
C29_ParallelForRanges ==
    (pf # Nil /\ pf.pc # "idle") =>
        /\ \A k \in DOMAIN pfCalls :
             /\ 0 <= pfCalls[k].start
             /\ pfCalls[k].start <= pfCalls[k].end
             /\ pfCalls[k].end <= pf.n
        /\ \A b \in 0..(pf.n - 1) : Cardinality(CallsOn(b)) <= 1
        /\ pf.pc = "returned" =>
              /\ \A b \in 0..(pf.n - 1) : Cardinality(CallsOn(b)) = 1
              /\ \A k \in DOMAIN pfCalls : pfCalls[k].returned

\* C30: Result.Controls[k] keeps the control value that was applied at step
\* k: no later step and no later SetControl, during or after the run, alters
\* a recorded entry.
C30_RecordedControlsKept ==
    (mrun # Nil /\ mrun.pc # "idle") =>
        \A k \in 1..Len(mrun.Controls) : heap[mrun.Controls[k]] = mrun.applied[k]

=============================================================================
